---- MODULE Spec2Model ----
(***************************************************************************)
(* Model of the owo-vision model-service lifecycle                         *)
(* (BaseONNXModelService + HuntbotModelService; YOLOModelService has the   *)
(* same getInstance / loadModel / predict / dispose / reset text) and of   *)
(* the one-hot decoder the service calls.                                  *)
(*                                                                         *)
(* Every `await` of the source is a suspension point: the code between two *)
(* awaits is one atomic action, and any other call may run in between.     *)
(***************************************************************************)
EXTENDS Integers, Sequences, FiniteSets, TLC

\* ------------------------------------------------------------------ bounds
MaxOps == 4         \* instances constructed plus initialize()/predict()/dispose() calls issued
MaxRawLen == 2      \* length of a raw output buffer the session returns
Depth == 2          \* decoder.depth of the modelled configuration

Instances == 1..MaxOps
LoadIds == 1..MaxOps
Calls == 1..MaxOps

\* ------------------------------------------------------------- error texts
\* messages are sequences of string tokens; a template literal is the
\* concatenation of its pieces
LoadErrorMessage == <<"Failed to initialize Huntbot model">>
SessionMissingMessage == <<"Session not initialized">>
NullSessionMessage == <<"Cannot read properties of null">>
NoOutputMessage == <<"No output from model">>
EmptyArrayMessage == <<"Input array cannot be empty">>
PreprocessMessages == {<<"Image preprocessing failed: ", "Unable to read image dimensions">>}
RunMessages == {<<"session run failed">>}
CreateMessages == {<<"model file not found">>}
NoError == <<>>

\* `Failed to solve Huntbot captcha: ${error.message}`
WrapErrorDropsMessage(message) == <<"Failed to solve Huntbot captcha">>
WrapError(message) == <<"Failed to solve Huntbot captcha: ">> \o message

\* `Array length (${array.length}) must be divisible by depth (${depth})`
DivisibleMessageNoDepth(len, depth) ==
    <<"Array length (", ToString(len), ") must be divisible by depth">>
DivisibleMessage(len, depth) ==
    <<"Array length (", ToString(len), ") must be divisible by depth (", ToString(depth), ")">>

\* ---------------------------------------------------------------- decoder
NegInfinity == -1000000
Alphabet == <<"a", "b", "c", "d", "e", "f", "g", "h", "i", "j", "k", "l", "m",
              "n", "o", "p", "q", "r", "s", "t", "u", "v", "w", "x", "y", "z">>

decodeChar(code) == IF code < 0 \/ code >= 26 THEN "?" ELSE Alphabet[code + 1]

\* `confidence > maxConfidence`: whether a scanned value replaces the running maximum
ReplacesOnTie(confidence, maxConfidence) == confidence >= maxConfidence
Replaces(confidence, maxConfidence) == confidence > maxConfidence

\* `maxConfidence >= minConfidence`: whether a position is kept
PassesStrictly(maxConfidence, minConfidence) == maxConfidence > minConfidence
PassesBelow(maxConfidence, minConfidence) == maxConfidence <= minConfidence
Passes(maxConfidence, minConfidence) == maxConfidence >= minConfidence

\* `result.push(...)`: results are kept in the order of the loop
PushResultLast(item, rest) == rest \o <<item>>
PushResult(item, rest) == <<item>> \o rest

\* the inner loop of decode: scan offsets offset..depth-1 of the block that
\* starts at startIndex (0-based), keeping the running maximum
RECURSIVE ScanBlock(_, _, _, _, _, _)
ScanBlock(array, startIndex, depth, offset, maxConfidence, maxIndex) ==
    IF offset >= depth THEN [maxConfidence |-> maxConfidence, maxIndex |-> maxIndex]
    ELSE LET confidence == array[startIndex + offset + 1]
         IN  IF Replaces(confidence, maxConfidence)
             THEN ScanBlock(array, startIndex, depth, offset + 1, confidence, offset)
             ELSE ScanBlock(array, startIndex, depth, offset + 1, maxConfidence, maxIndex)

\* the outer loop of decode, positions position..numPositions-1
RECURSIVE DecodePositions(_, _, _, _, _)
DecodePositions(array, depth, minConfidence, position, numPositions) ==
    IF position >= numPositions THEN <<>>
    ELSE LET m == ScanBlock(array, position * depth, depth, 0, NegInfinity, -1)
             rest == DecodePositions(array, depth, minConfidence, position + 1, numPositions)
         IN  IF Passes(m.maxConfidence, minConfidence) /\ m.maxIndex # -1
             THEN PushResult([value |-> decodeChar(m.maxIndex),
                              confidence |-> m.maxConfidence,
                              position |-> position], rest)
             ELSE rest

\* HuntbotDecoder.decode: [ok, results] or [ok, error]
decode(array, depth, minConfidence) ==
    IF Len(array) = 0 THEN [ok |-> FALSE, error |-> EmptyArrayMessage, results |-> <<>>]
    ELSE IF Len(array) % depth # 0
    THEN [ok |-> FALSE, error |-> DivisibleMessage(Len(array), depth), results |-> <<>>]
    ELSE [ok |-> TRUE, error |-> NoError,
          results |-> DecodePositions(array, depth, minConfidence, 0, Len(array) \div depth)]

\* the images handed to predict(): two, told apart by the model
Inputs == {1, 2}

\* session.run(): the raw output of length n the loaded model gives for an
\* image: zeros and a one, the last element for image 1 and the first for image 2
Infer(n, input) == [k \in 1..n |-> IF k = (IF input = 1 THEN n ELSE 1) THEN 1 ELSE 0]

RawOutputs == {Infer(n, input) : n \in 0..MaxRawLen, input \in Inputs}

\* ----------------------------------------------------------------- config
\* the constructor merges the caller's partial config over the defaults
defaultConfig == [depth |-> Depth, minConfidence |-> 0]
ConfigArgs == {<<>>, [minConfidence |-> 1]}
finalConfig(arg) ==
    [k \in DOMAIN defaultConfig |-> IF k \in DOMAIN arg THEN arg[k] ELSE defaultConfig[k]]

VARIABLES
    instance,      \* static HuntbotModelService.instance: 0 is null, else an instance id
    nInst,         \* number of instances constructed so far
    config,        \* config[i]: this.config of instance i
    session,       \* session[i]: this.session, 0 is null, else the id of the session
    initPromise,   \* initPromise[i]: this.initPromise, 0 is null, else the id of the load
    loads,         \* loads[l]: the l-th loadModel() invocation, [inst, st, error]
    released,      \* released[s]: how often release() was invoked on session s
    issued,        \* number of initialize()/predict()/dispose() calls issued so far
    calls,         \* calls[c]: the c-th call while it runs
    observed,      \* what a caller is being handed: the reference getInstance() returns or
                   \* the settlement of a call; the caller takes it in the next step
    firstGot,      \* history: instance the first getInstance() since the reference was last cleared returned
    firstCfg,      \* history: final config built from the argument of that first getInstance()
    loadsNoDispose,\* history: loads started on i since dispose() was last called on i
    everDisposed,  \* history: instances on which dispose() was ever called
    failedSince,   \* history: the load of i that failed with no dispose() called on i since, or 0
    disposeDone,   \* history: instances on which a dispose() call has completed
    predictFailed, \* history: instances on which a predict() that met a session failed in a later stage
    fn,            \* the pure function under study: "none" while the service runs
    args,          \* its arguments
    returned,      \* whether it has been applied
    ret            \* what it returned or threw

service == <<instance, nInst, config, session, initPromise, loads, released, issued, calls,
             observed, firstGot, firstCfg, loadsNoDispose, everDisposed, failedSince, disposeDone,
             predictFailed>>

pure == <<fn, args, returned, ret>>

vars == <<service, pure>>

hist == <<firstGot, firstCfg, loadsNoDispose, everDisposed, failedSince, disposeDone,
          predictFailed>>

\* a call that is not running: not issued yet, or settled
IdleCall == [op |-> "none", inst |-> 0, pc |-> "idle", awaiting |-> 0, joined |-> "none",
             stages |-> <<>>, invoked |-> 0, loadsAtClear |-> 0, afterFailure |-> FALSE,
             input |-> 0]

\* nothing is being handed to a caller
NoSettlement == [op |-> "none", inst |-> 0, cfg |-> defaultConfig, joined |-> "none", stages |-> <<>>, invoked |-> 0,
                 loadsAtClear |-> 0, afterFailure |-> FALSE, input |-> 0, fresh |-> FALSE,
                 outcome |-> "none",
                 thrown |-> NoError, err |-> NoError, hasResult |-> FALSE, results |-> <<>>]

\* the settlement of running call r
Settlement(r, outcome, thrown, err) ==
    [NoSettlement EXCEPT !.op = r.op, !.inst = r.inst, !.joined = r.joined, !.stages = r.stages,
                         !.invoked = r.invoked, !.loadsAtClear = r.loadsAtClear,
                         !.afterFailure = r.afterFailure, !.input = r.input,
                         !.outcome = outcome, !.thrown = thrown, !.err = err]

\* call c settles as settlement s and leaves its slot
Settle(c, s) ==
    /\ calls' = [calls EXCEPT ![c] = IdleCall]
    /\ observed' = s

\* call c goes on to its next await as record r
Advance(c, r) ==
    /\ calls' = [calls EXCEPT ![c] = r]
    /\ UNCHANGED observed

\* the service after module load: no instance constructed
ServiceInit ==
    /\ instance = 0
    /\ nInst = 0
    /\ config = [i \in Instances |-> defaultConfig]
    /\ session = [i \in Instances |-> 0]
    /\ initPromise = [i \in Instances |-> 0]
    /\ loads = <<>>
    /\ released = [s \in LoadIds |-> 0]
    /\ issued = 0
    /\ calls = [c \in Calls |-> IdleCall]
    /\ observed = NoSettlement
    /\ firstGot = 0
    /\ firstCfg = defaultConfig
    /\ loadsNoDispose = [i \in Instances |-> 0]
    /\ everDisposed = {}
    /\ failedSince = [i \in Instances |-> 0]
    /\ disposeDone = {}
    /\ predictFailed = {}

\* no pure function is under study
NoFunction ==
    /\ fn = "none"
    /\ args = <<>>
    /\ returned = FALSE
    /\ ret = <<>>

Init == ServiceInit /\ NoFunction

\* no caller is in the middle of taking a result: the next operation can run
Quiet == observed = NoSettlement

\* room for one more instance or call
HasBudget == nInst + issued < MaxOps

Created == 1..nInst

\* a caller issues call r on an instance it holds: the next slot is taken
Issue(r) ==
    /\ HasBudget
    /\ r.inst \in Created
    /\ issued' = issued + 1
    /\ calls' = [calls EXCEPT ![issued + 1] = r]
    /\ UNCHANGED observed

\* ------------------------------------------------------ singleton accessor
\* getInstance: `if (!HuntbotModelService.instance)`
GetInstanceAlwaysCreates == TRUE
GetInstanceCreates == instance = 0

\* static getInstance(config?): construct on first use, return the reference
getInstance(arg) ==
    /\ Quiet
    /\ GetInstanceCreates => HasBudget
    /\ IF GetInstanceCreates
       THEN /\ nInst' = nInst + 1
            /\ instance' = nInst + 1
            /\ config' = [config EXCEPT ![nInst + 1] = finalConfig(arg)]
       ELSE UNCHANGED <<nInst, instance, config>>
    /\ firstGot' = IF firstGot = 0 THEN instance' ELSE firstGot
    /\ firstCfg' = IF firstGot = 0 THEN finalConfig(arg) ELSE firstCfg
    /\ observed' = [NoSettlement EXCEPT !.op = "getInstance", !.inst = instance',
                                        !.cfg = finalConfig(arg), !.fresh = (instance = 0)]
    /\ UNCHANGED <<session, initPromise, loads, released, issued, calls,
                   loadsNoDispose, everDisposed, failedSince, disposeDone, predictFailed>>
    /\ UNCHANGED pure

\* static reset(): clears the reference, touches no instance
reset ==
    /\ Quiet
    /\ instance' = 0
    /\ firstGot' = 0
    /\ firstCfg' = defaultConfig
    /\ UNCHANGED <<nInst, config, session, initPromise, loads, released, issued, calls,
                   observed, loadsNoDispose, everDisposed, failedSince, disposeDone, predictFailed>>
    /\ UNCHANGED pure

\* -------------------------------------------------------------- initialize
\* `if (!this.initPromise)`
MemoIgnored(i) == TRUE
MemoMissing(i) == initPromise[i] = 0

\* initialize() starts loadModel() iff there is no session and no memo
NeverLoads(i) == FALSE
NeedsLoad(i) == session[i] = 0 /\ MemoMissing(i)

\* what the caller of initialize() awaits: 0 is the immediate return
Awaited(i) ==
    IF session[i] # 0 THEN 0
    ELSE IF NeedsLoad(i) THEN Len(loads) + 1
    ELSE initPromise[i]

\* history: how the caller of initialize() met the instance
Joined(i) ==
    IF session[i] # 0 THEN "ready"
    ELSE IF NeedsLoad(i) THEN "new"
    ELSE IF initPromise[i] = 0 THEN "none"
    ELSE IF loads[initPromise[i]].st = "inflight" THEN "inflight"
    ELSE "settled"

\* the synchronous part of initialize(), up to loadModel()'s first await
initialize(i) ==
    /\ loads' = IF NeedsLoad(i) THEN Append(loads, [inst |-> i, st |-> "inflight", error |-> NoError]) ELSE loads
    /\ initPromise' = IF NeedsLoad(i) THEN [initPromise EXCEPT ![i] = Len(loads) + 1]
                      ELSE initPromise
    /\ loadsNoDispose' = IF NeedsLoad(i) THEN [loadsNoDispose EXCEPT ![i] = @ + 1]
                         ELSE loadsNoDispose

FailedNever(l) == FALSE
Settled(l) == IF l = 0 THEN TRUE ELSE loads[l].st # "inflight"
Failed(l) == IF l = 0 THEN FALSE ELSE loads[l].st = "failed"

\* a caller invokes initialize() on an instance it holds
InitializeCall(i) ==
    /\ Quiet
    /\ Issue([IdleCall EXCEPT !.op = "initialize", !.inst = i, !.pc = "init",
                              !.awaiting = Awaited(i), !.joined = Joined(i)])
    /\ initialize(i)
    /\ UNCHANGED <<instance, nInst, config, session, released,
                   firstGot, firstCfg, everDisposed, failedSince, disposeDone, predictFailed>>
    /\ UNCHANGED pure

\* the awaited promise settles: the caller resumes
InitializeSettle(c) ==
    /\ Quiet
    /\ calls[c].op = "initialize"
    /\ Settled(calls[c].awaiting)
    /\ IF Failed(calls[c].awaiting)
       THEN Settle(c, Settlement(calls[c], "rejected", loads[calls[c].awaiting].error,
                                  loads[calls[c].awaiting].error))
       ELSE Settle(c, Settlement(calls[c], "resolved", NoError, NoError))
    /\ UNCHANGED <<instance, nInst, config, session, initPromise, loads, released, issued, hist>>
    /\ UNCHANGED pure

\* --------------------------------------------------------------- loadModel
\* the catch of loadModel rethrows and leaves this.initPromise as it is
MemoClearedOnFailure(i) == 0
MemoAfterLoadFailure(i) == initPromise[i]

\* `this.session = await InferenceSession.create(...)` resolves
LoadSucceed(l) ==
    /\ Quiet
    /\ l \in 1..Len(loads)
    /\ loads[l].st = "inflight"
    /\ loads' = [loads EXCEPT ![l].st = "ok"]
    /\ session' = [session EXCEPT ![loads[l].inst] = l]
    /\ UNCHANGED <<instance, nInst, config, initPromise, released, issued, calls, observed, hist>>
    /\ UNCHANGED pure

\* the catch of loadModel logs the cause and throws a new error without it
loadModelError(cause) == LoadErrorMessage

\* InferenceSession.create rejects: the catch throws the load error
LoadFail(l) ==
    /\ Quiet
    /\ l \in 1..Len(loads)
    /\ loads[l].st = "inflight"
    /\ \E cause \in CreateMessages :
          loads' = [loads EXCEPT ![l].st = "failed", ![l].error = loadModelError(cause)]
    /\ initPromise' = [initPromise EXCEPT ![loads[l].inst] = MemoAfterLoadFailure(loads[l].inst)]
    /\ failedSince' = [failedSince EXCEPT ![loads[l].inst] = l]
    /\ UNCHANGED <<instance, nInst, config, session, released, issued, calls, observed,
                   firstGot, firstCfg, loadsNoDispose, everDisposed, disposeDone, predictFailed>>
    /\ UNCHANGED pure

\* ----------------------------------------------------------------- predict
\* what the steps of predict() after its first await leave alone: the body and
\* the catch of predict assign no field of the service
PredictFrameDisposes ==
    /\ instance' = 0
    /\ session' = [session EXCEPT ![instance] = 0]
    /\ UNCHANGED <<nInst, config, initPromise, loads, released, issued,
                   firstGot, firstCfg, loadsNoDispose, everDisposed, failedSince, disposeDone>>
PredictFrame ==
    UNCHANGED <<instance, nInst, config, session, initPromise, loads, released, issued,
                firstGot, firstCfg, loadsNoDispose, everDisposed, failedSince, disposeDone>>

\* the image behind the tensor of call c: preprocessed and inputTensor are
\* constants of the call's own frame
LatestInput(c) == calls[CHOOSE d \in Calls : calls[d].op = "predict" /\
                           \A e \in Calls : calls[e].op = "predict" => e <= d].input
TensorInput(c) == calls[c].input

\* the catch of predict: log, then throw the wrapped error
RejectResolves(c, message) ==
    Settle(c, Settlement(calls[c], "resolved", NoError, NoError))
Reject(c, message) ==
    Settle(c, Settlement(calls[c], "rejected", message, WrapError(message)))

\* predict() up to `await this.initialize()`
PredictCall(i, imageBuffer) ==
    /\ Quiet
    /\ Issue([IdleCall EXCEPT !.op = "predict", !.inst = i, !.pc = "init",
                              !.awaiting = Awaited(i), !.joined = Joined(i), !.stages = <<"init">>,
                              !.afterFailure = (i \in predictFailed),
                              !.input = imageBuffer])
    /\ initialize(i)
    /\ UNCHANGED <<instance, nInst, config, session, released,
                   firstGot, firstCfg, everDisposed, failedSince, disposeDone, predictFailed>>
    /\ UNCHANGED pure

\* initialize() settled: the session check, then preprocess() is called
PredictAfterInit(c) ==
    /\ Quiet
    /\ calls[c].op = "predict"
    /\ calls[c].pc = "init"
    /\ Settled(calls[c].awaiting)
    /\ IF Failed(calls[c].awaiting) THEN Reject(c, loads[calls[c].awaiting].error)
       ELSE IF session[calls[c].inst] = 0 THEN Reject(c, SessionMissingMessage)
       ELSE Advance(c, [calls[c] EXCEPT !.pc = "pre", !.awaiting = 0,
                                        !.stages = Append(@, "pre")])
    /\ PredictFrame
    /\ UNCHANGED predictFailed
    /\ UNCHANGED pure

\* preprocess() settled: the tensor is built and this.session.run() is called
PredictAfterPreprocess(c) ==
    /\ Quiet
    /\ calls[c].op = "predict"
    /\ calls[c].pc = "pre"
    /\ \/ \E m \in PreprocessMessages : Reject(c, m)
       \/ IF session[calls[c].inst] = 0 THEN Reject(c, NullSessionMessage)
          ELSE Advance(c, [calls[c] EXCEPT !.pc = "run", !.stages = Append(@, "run"),
                                           !.invoked = session[calls[c].inst]])
    /\ PredictFrame
    /\ predictFailed' = IF calls[c].joined = "ready" /\ observed'.outcome = "rejected"
                        THEN predictFailed \cup {calls[c].inst} ELSE predictFailed
    /\ UNCHANGED pure

\* run() settled: the output tensor is looked up and decoded
PredictAfterRun(c) ==
    /\ Quiet
    /\ calls[c].op = "predict"
    /\ calls[c].pc = "run"
    /\ \/ \E m \in RunMessages : Reject(c, m)
       \/ /\ session[calls[c].inst] = 0
          /\ Reject(c, NullSessionMessage)
       \/ /\ session[calls[c].inst] # 0
          /\ Reject(c, NoOutputMessage)
       \/ /\ session[calls[c].inst] # 0
          /\ \E n \in 0..MaxRawLen :
                LET cfg == config[calls[c].inst]
                    raw == Infer(n, TensorInput(c))
                    d == decode(raw, cfg.depth, cfg.minConfidence)
                    entered == [calls[c] EXCEPT !.stages = Append(@, "decode")]
                IN  IF d.ok
                    THEN Settle(c, [Settlement(entered, "resolved", NoError, NoError)
                                       EXCEPT !.hasResult = TRUE, !.results = d.results])
                    ELSE Settle(c, Settlement(entered, "rejected", d.error, WrapError(d.error)))
    /\ PredictFrame
    /\ predictFailed' = IF calls[c].joined = "ready" /\ observed'.outcome = "rejected"
                        THEN predictFailed \cup {calls[c].inst} ELSE predictFailed
    /\ UNCHANGED pure

\* ----------------------------------------------------------------- dispose
\* `this.initPromise = null` of BaseONNXModelService.dispose
MemoAfterDispose(i) == 0

\* `HuntbotModelService.instance = null` of HuntbotModelService.dispose
InstanceAfterDispose == 0

\* dispose() up to its first await: with a session, release() is invoked and
\* awaited; without one the memo is cleared and super.dispose() returns
DisposeCall(i) ==
    /\ Quiet
    /\ IF session[i] # 0
       THEN /\ released' = [released EXCEPT ![session[i]] = @ + 1]
            /\ Issue([IdleCall EXCEPT !.op = "dispose", !.inst = i, !.pc = "releasing"])
            /\ UNCHANGED initPromise
       ELSE /\ initPromise' = [initPromise EXCEPT ![i] = MemoAfterDispose(i)]
            /\ Issue([IdleCall EXCEPT !.op = "dispose", !.inst = i, !.pc = "superDone",
                                      !.loadsAtClear = Len(loads)])
            /\ UNCHANGED released
    /\ loadsNoDispose' = [loadsNoDispose EXCEPT ![i] = 0]
    /\ everDisposed' = everDisposed \cup {i}
    /\ failedSince' = [failedSince EXCEPT ![i] = 0]
    /\ UNCHANGED <<instance, nInst, config, session, loads,
                   firstGot, firstCfg, disposeDone, predictFailed>>
    /\ UNCHANGED pure

\* release() resolved: `this.session = null; this.initPromise = null`
DisposeAfterRelease(c) ==
    /\ Quiet
    /\ calls[c].op = "dispose"
    /\ calls[c].pc = "releasing"
    /\ session' = [session EXCEPT ![calls[c].inst] = 0]
    /\ initPromise' = [initPromise EXCEPT ![calls[c].inst] = MemoAfterDispose(calls[c].inst)]
    /\ Advance(c, [calls[c] EXCEPT !.pc = "superDone", !.loadsAtClear = Len(loads)])
    /\ UNCHANGED <<instance, nInst, config, loads, released, issued, hist>>
    /\ UNCHANGED pure

\* release() rejected: dispose() rejects with nothing cleared
DisposeReleaseFails(c) ==
    /\ Quiet
    /\ calls[c].op = "dispose"
    /\ calls[c].pc = "releasing"
    /\ Settle(c, Settlement(calls[c], "rejected", NoError, NoError))
    /\ UNCHANGED <<instance, nInst, config, session, initPromise, loads, released, issued, hist>>
    /\ UNCHANGED pure

\* `await super.dispose()` resumed: the singleton reference is cleared
DisposeFinish(c) ==
    /\ Quiet
    /\ calls[c].op = "dispose"
    /\ calls[c].pc = "superDone"
    /\ instance' = InstanceAfterDispose
    /\ Settle(c, Settlement(calls[c], "resolved", NoError, NoError))
    /\ firstGot' = 0
    /\ firstCfg' = defaultConfig
    /\ disposeDone' = disposeDone \cup {calls[c].inst}
    /\ UNCHANGED <<nInst, config, session, initPromise, loads, released, issued,
                   loadsNoDispose, everDisposed, failedSince, predictFailed>>
    /\ UNCHANGED pure

\* the caller takes what it was handed
Observe ==
    /\ observed # NoSettlement
    /\ observed' = NoSettlement
    /\ UNCHANGED <<instance, nInst, config, session, initPromise, loads, released, issued,
                   calls, hist>>
    /\ UNCHANGED pure

\* ---------------------------------------------------------- specification
\* every operation but reset()
StepNoReset ==
    \/ \E arg \in ConfigArgs : getInstance(arg)
    \/ \E i \in Instances : InitializeCall(i)
    \/ \E c \in Calls : InitializeSettle(c)
    \/ \E l \in LoadIds : LoadSucceed(l)
    \/ \E l \in LoadIds : LoadFail(l)
    \/ \E i \in Instances, imageBuffer \in Inputs : PredictCall(i, imageBuffer)
    \/ \E c \in Calls : PredictAfterInit(c)
    \/ \E c \in Calls : PredictAfterPreprocess(c)
    \/ \E c \in Calls : PredictAfterRun(c)
    \/ \E i \in Instances : DisposeCall(i)
    \/ \E c \in Calls : DisposeAfterRelease(c)
    \/ \E c \in Calls : DisposeReleaseFails(c)
    \/ \E c \in Calls : DisposeFinish(c)

Next == Observe \/ StepNoReset \/ reset

Spec == Init /\ [][Next]_vars

\* the event loop runs every continuation that is ready, a caller takes what it
\* is handed, and InferenceSession.create settles
FairSpec ==
    /\ Spec
    /\ WF_vars(Observe)
    /\ SF_vars(\E c \in Calls : InitializeSettle(c))
    /\ SF_vars(\E l \in LoadIds : LoadSucceed(l) \/ LoadFail(l))

\* the callers use getInstance(), initialize(), predict() and dispose() only
NextNoReset == Observe \/ StepNoReset

SpecNoReset == Init /\ [][NextNoReset]_vars

\* ------------------------------------------------------ derived notions
LoadsOf(i) == {l \in 1..Len(loads) : loads[l].inst = i}
InFlight == {l \in 1..Len(loads) : loads[l].st = "inflight"}
isInitialized(i) == session[i] # 0
RunningOn(i) == {c \in Calls : calls[c].op # "none" /\ calls[c].inst = i}
EnsuringOn(i) == {c \in RunningOn(i) : calls[c].op \in {"initialize", "predict"}}
IsPrefix(s, t) == Len(s) <= Len(t) /\ SubSeq(t, 1, Len(s)) = s
Contains(message, part) ==
    \E k \in 0..(Len(message) - Len(part)) : SubSeq(message, k + 1, k + Len(part)) = part
StageOrder == <<"init", "pre", "run", "decode">>

\* ------------------------------------------------------------------ claims

\* C1: on one instance, with no dispose() step in between, loadModel() is
\* started at most once, whatever the number and interleaving of initialize()
\* and predict() calls: a caller that meets a memo in flight or settled awaits
\* that load and starts none.
C1_LoadStartedAtMostOnce ==
    /\ \A i \in Instances : loadsNoDispose[i] <= 1
    /\ \A c \in Calls :
          calls[c].joined \in {"inflight", "settled"} /\ calls[c].pc = "init"
              => calls[c].awaiting \in LoadsOf(calls[c].inst)

\* two concurrent initialize() calls on a fresh instance await the one load
C1_Witness ==
    \E c1, c2 \in Calls :
        /\ calls[c1].op = "initialize" /\ calls[c2].op = "initialize"
        /\ calls[c1].inst = calls[c2].inst
        /\ calls[c1].joined = "new" /\ calls[c2].joined = "inflight"
        /\ calls[c1].awaiting = calls[c2].awaiting
        /\ everDisposed = {}
        /\ Len(loads) = 1

\* C2: for the model kind, at most one load is in flight at any moment, under
\* any interleaving of getInstance(), initialize(), predict() and dispose().
C2_AtMostOneLoadInFlight == Cardinality(InFlight) <= 1

\* C3: at most one instance that is not disposed exists at any moment, after
\* any sequence of getInstance(), dispose() and reset() calls.
C3_AtMostOneLiveInstance == Cardinality(Created \ disposeDone) <= 1

\* C4: between two clearings of the singleton reference (a dispose() completing,
\* a reset()), every getInstance() returns the instance the first one returned,
\* and that instance keeps the config built from the first call's argument.
C4_SameInstanceFirstConfig ==
    /\ firstGot # 0 => instance = firstGot /\ config[firstGot] = firstCfg
    /\ observed.op = "getInstance" => observed.inst = firstGot /\ observed.inst \in Created

\* a later getInstance() was given another config and returned the first instance
C4_Witness ==
    /\ observed.op = "getInstance"
    /\ ~observed.fresh
    /\ observed.cfg # firstCfg
    /\ observed.inst = firstGot

\* C5: an instance is Ready only through a load it started and that succeeded,
\* and once a dispose() has completed on it, isInitialized() is never true again.
C5_LifecycleOneWay ==
    \A i \in Created :
        /\ isInitialized(i) => session[i] \in LoadsOf(i) /\ loads[session[i]].st = "ok"
        /\ i \in disposeDone => ~isInitialized(i)

\* C6: once a dispose() has completed on an instance and nothing of that instance
\* is in flight, the instance holds no session and every session it ever created
\* has been released.
C6_DisposeReleasesEverySession ==
    \A i \in disposeDone :
        RunningOn(i) = {} /\ LoadsOf(i) \cap InFlight = {}
            => /\ session[i] = 0
               /\ \A l \in LoadsOf(i) : loads[l].st = "ok" => released[l] >= 1



\* C7: once a load has failed on an instance, and for as long as dispose() is
\* not called on it afterwards, the instance is not ready and its memo is the
\* failed load, so that a later initialize() or predict() awaits that load
\* instead of starting one.
C7_FailedLoadSticks ==
    \A i \in Created :
        failedSince[i] # 0
            => /\ ~isInitialized(i)
               /\ ~NeedsLoad(i)
               /\ initPromise[i] = failedSince[i]

\* C7, for an instance on which dispose() has never been called, before the
\* failure or after it: after a load has failed the instance stays not ready,
\* the failed load stays the memo and the only load ever started, every
\* initialize()/predict() in flight awaits it, and every such call that settles
\* is rejected with the load failure.
C7_FailedMemoIsReused ==
    \A i \in Created \ everDisposed :
        (\E l \in LoadsOf(i) : loads[l].st = "failed")
            => /\ ~isInitialized(i)
               /\ Cardinality(LoadsOf(i)) = 1
               /\ initPromise[i] \in LoadsOf(i)
               /\ failedSince[i] = initPromise[i]
               /\ \A c \in EnsuringOn(i) : calls[c].pc = "init" /\ calls[c].awaiting = initPromise[i]
               /\ observed.op \in {"initialize", "predict"} /\ observed.inst = i
                      => /\ observed.outcome = "rejected"
                         /\ observed.thrown = LoadErrorMessage
                         /\ Contains(observed.err, LoadErrorMessage)

\* an initialize() issued after the load had failed is rejected with that failure
C7_Witness ==
    /\ observed.op = "initialize"
    /\ observed.joined = "settled"
    /\ observed.outcome = "rejected"
    /\ observed.err = LoadErrorMessage
    /\ observed.inst \notin everDisposed
    /\ failedSince[observed.inst] # 0
    /\ Cardinality(LoadsOf(observed.inst)) = 1

\* C8: when a dispose() completes, the singleton reference is empty and the
\* memo of the disposed instance is cleared; a getInstance() that finds the
\* reference empty returns a new instance with no session, no memo and no load,
\* and every initialize()/predict() on an instance comes with a load of that
\* instance: the first one on the new instance starts it.
C8_DisposeThenRebuild ==
    /\ observed.op = "dispose" /\ observed.outcome = "resolved"
          => /\ instance = 0
             /\ initPromise[observed.inst] = 0
    /\ observed.op = "getInstance" /\ observed.fresh
          => /\ observed.inst = nInst
             /\ observed.inst \notin everDisposed
             /\ ~isInitialized(observed.inst)
             /\ initPromise[observed.inst] = 0
             /\ LoadsOf(observed.inst) = {}
    /\ \A i \in Created :
          /\ LoadsOf(i) = {} => ~isInitialized(i) /\ initPromise[i] = 0
          /\ EnsuringOn(i) # {} => LoadsOf(i) # {}

\* the stages a predict() record went through are in order, and the session it
\* invoked came from a successful load of its own instance
PredictInOrder(r) ==
    /\ IsPrefix(r.stages, StageOrder)
    /\ r.stages # <<>>
    /\ r.invoked # 0 => r.invoked \in LoadsOf(r.inst) /\ loads[r.invoked].st = "ok"
    /\ r.invoked # 0 <=> Len(r.stages) >= 3

\* C9: a predict() call goes through ensure-initialized, preprocess, session
\* invocation, decode in this order, each at most once; it invokes a session only
\* after a load of its instance has succeeded; and a predict() on an instance
\* comes with a load of that instance, started by the call itself when the
\* instance had neither session nor memo.
C9_PredictStagesInOrder ==
    /\ \A c \in Calls : calls[c].op = "predict" =>
          /\ PredictInOrder(calls[c])
          /\ LoadsOf(calls[c].inst) # {}
          /\ calls[c].pc = "init" => calls[c].stages = <<"init">>
          /\ calls[c].pc = "init" /\ calls[c].awaiting # 0
                => calls[c].awaiting \in LoadsOf(calls[c].inst)
          /\ calls[c].pc = "init" /\ calls[c].awaiting = 0
                => \E l \in LoadsOf(calls[c].inst) : loads[l].st = "ok"
          /\ calls[c].pc = "pre" => calls[c].stages = <<"init", "pre">>
          /\ calls[c].pc = "run" => calls[c].stages = <<"init", "pre", "run">>
    /\ observed.op = "predict" =>
          /\ PredictInOrder(observed)
          /\ observed.outcome = "resolved" => observed.stages = StageOrder

\* the only call ever issued, a predict() on a fresh instance, started the load
\* itself and went through the four stages
C9_Witness ==
    /\ observed.op = "predict"
    /\ observed.outcome = "resolved"
    /\ observed.joined = "new"
    /\ observed.stages = StageOrder
    /\ issued = 1

\* C10: a predict() that settles either resolves with a result after all four
\* stages, no error having been thrown, or is rejected with one error whose
\* message contains the message of the error the failing stage threw, and has
\* no result.
C10_PredictFailsLoudly ==
    observed.op = "predict" =>
        /\ observed.outcome \in {"resolved", "rejected"}
        /\ observed.outcome = "resolved"
              => /\ observed.thrown = NoError /\ observed.err = NoError
                 /\ observed.hasResult
                 /\ observed.stages = StageOrder
        /\ observed.outcome = "rejected"
              => /\ observed.thrown # NoError
                 /\ Contains(observed.err, observed.thrown)
                 /\ observed.err # observed.thrown
                 /\ ~observed.hasResult /\ observed.results = <<>>
        /\ observed.stages # StageOrder => observed.outcome = "rejected"

\* a decode error (a raw buffer of one element) reaches the caller wrapped
C10_Witness ==
    /\ observed.op = "predict"
    /\ observed.outcome = "rejected"
    /\ observed.thrown = DivisibleMessage(1, Depth)
    /\ observed.stages = StageOrder

\* a step taken by call c, a predict() that met a session when it was called or
\* that is past its initialization stage
PredictStepAfterInit(c) ==
    /\ calls'[c] # calls[c]
    /\ \/ calls[c].op = "none" /\ calls'[c].op = "predict" /\ calls'[c].joined = "ready"
       \/ calls[c].op = "predict" /\ calls[c].joined = "ready"
       \/ calls[c].op = "predict" /\ calls[c].pc \in {"pre", "run"}

\* C11: no step of a predict() that met a session, and no step of a predict()
\* past its initialization stage, writes the singleton reference, a session, a
\* memo, a config or the loads: a failure in preprocess, inference or decode
\* leaves them as they were. On an instance never disposed, after such a
\* failure the instance is still ready and a later predict() meets the session
\* and starts no load.
C11_FailedPredictChangesNothing ==
    /\ [](\A i \in predictFailed \ everDisposed :
             /\ isInitialized(i)
             /\ ~NeedsLoad(i)
             /\ Cardinality(LoadsOf(i)) = 1)
    /\ [](\A c \in Calls :
             calls[c].op = "predict" /\ calls[c].afterFailure /\ calls[c].inst \notin everDisposed
                 => calls[c].joined = "ready" /\ calls[c].awaiting = 0)
    /\ [][\A c \in Calls :
             PredictStepAfterInit(c)
                 => UNCHANGED <<instance, nInst, config, session, initPromise, loads, released>>]_vars

\* a predict() issued after a predict() had failed on the same ready instance
\* resolves on the session of the one load
C11_Witness ==
    /\ observed.op = "predict"
    /\ observed.outcome = "resolved"
    /\ observed.afterFailure
    /\ observed.joined = "ready"
    /\ observed.inst \in predictFailed \ everDisposed
    /\ observed.invoked = session[observed.inst]
    /\ Len(loads) = 1

\* ------------------------------------------------ one-hot decoders alone
MaxArrayLen == 4    \* length of a buffer handed to a one-hot decoder
MaxDepth == 3       \* depth handed to a one-hot decoder

\* scores and thresholds: finite numbers, with ties, zeros and negatives
OneHotScores == {-1, 0, 1}
Thresholds == {0, 1}
OneHotArrays == UNION {[1..n -> OneHotScores] : n \in 0..MaxArrayLen}

Alphanumeric == <<" ", "0", "1", "2", "3", "4", "5", "6", "7", "8", "9">> \o Alphabet
lowercaseDecoder(code) == IF code < 0 \/ code > 25 THEN "?" ELSE Alphabet[code + 1]
alphanumericDecoderNoSpace(code) ==
    IF code >= 1 /\ code <= 36 THEN Alphanumeric[code + 1] ELSE "?"
alphanumericDecoder(code) == IF code >= 0 /\ code <= 36 THEN Alphanumeric[code + 1] ELSE "?"

\* options.decoder, a callback of the caller
Decoders == {"lowercaseDecoder", "alphanumericDecoder"}
ApplyDecoder(decoder, code) ==
    IF decoder = "lowercaseDecoder" THEN lowercaseDecoder(code) ELSE alphanumericDecoder(code)

\* the inner loop of onehotDecode
RECURSIVE OnehotScan(_, _, _, _, _, _)
OnehotScan(array, startIndex, depth, offset, maxConfidence, maxIndex) ==
    IF offset >= depth THEN [maxConfidence |-> maxConfidence, maxIndex |-> maxIndex]
    ELSE LET confidence == array[startIndex + offset + 1]
         IN  IF confidence > maxConfidence
             THEN OnehotScan(array, startIndex, depth, offset + 1, confidence, offset)
             ELSE OnehotScan(array, startIndex, depth, offset + 1, maxConfidence, maxIndex)

\* the outer loop of onehotDecode
RECURSIVE OnehotPositions(_, _, _, _, _, _)
OnehotPositions(array, depth, decoder, minConfidence, position, numPositions) ==
    IF position >= numPositions THEN <<>>
    ELSE LET m == OnehotScan(array, position * depth, depth, 0, NegInfinity, -1)
             rest == OnehotPositions(array, depth, decoder, minConfidence, position + 1,
                                     numPositions)
         IN  IF m.maxConfidence >= minConfidence /\ m.maxIndex # -1
             THEN <<[char |-> ApplyDecoder(decoder, m.maxIndex),
                     confidence |-> m.maxConfidence,
                     position |-> position]>> \o rest
             ELSE rest

\* onehotDecode(array, {depth, decoder, minConfidence})
onehotDecode(array, depth, decoder, minConfidence) ==
    IF Len(array) = 0 THEN [ok |-> FALSE, error |-> EmptyArrayMessage, results |-> <<>>]
    ELSE IF Len(array) % depth # 0
    THEN [ok |-> FALSE, error |-> DivisibleMessage(Len(array), depth), results |-> <<>>]
    ELSE [ok |-> TRUE, error |-> NoError,
          results |-> OnehotPositions(array, depth, decoder, minConfidence, 0,
                                      Len(array) \div depth)]

\* a caller holds a buffer and a configuration
OnehotInit ==
    /\ ServiceInit
    /\ fn = "decode"
    /\ returned = FALSE
    /\ ret = <<>>
    /\ \E array \in OneHotArrays, depth \in 1..MaxDepth, decoder \in Decoders,
          minConfidence \in Thresholds :
          args = [array |-> array, depth |-> depth, decoder |-> decoder,
                  minConfidence |-> minConfidence]

\* HuntbotDecoder.decode and onehotDecode are applied to the buffer
Decode ==
    /\ fn = "decode"
    /\ ~returned
    /\ returned' = TRUE
    /\ ret' = [huntbot |-> decode(args.array, args.depth, args.minConfidence),
               onehot |-> onehotDecode(args.array, args.depth, args.decoder, args.minConfidence)]
    /\ UNCHANGED <<fn, args, service>>

\* ------------------------------------------------------ box decoder alone
MaxBoxes == 2       \* whole records in a buffer handed to the box decoder
PosInfinity == 1000000

\* what an index past the end of a Float32Array reads, and what arithmetic on it
\* gives: two values outside the numbers of the model
Undefined == 2000000
NaN == 3000000
IsNumber(v) == v # Undefined /\ v # NaN

\* array[index], 0-based, with the non-null assertion that checks nothing
At(array, index) == IF index < Len(array) THEN array[index + 1] ELSE Undefined

\* `a < b`, `a > b`, `a >= b` on numbers: false as soon as one side is not a number
Less(a, b) == IsNumber(a) /\ IsNumber(b) /\ a < b
Greater(a, b) == IsNumber(a) /\ IsNumber(b) /\ a > b
AtLeast(a, b) == IsNumber(a) /\ IsNumber(b) /\ a >= b

\* `a * b` where b may be -Infinity
Times(a, b) ==
    IF ~IsNumber(a) \/ ~IsNumber(b) THEN NaN
    ELSE IF b = NegInfinity
    THEN (IF a > 0 THEN NegInfinity ELSE IF a < 0 THEN PosInfinity ELSE NaN)
    ELSE a * b

\* `const confidence = objectness * maxClassProb`
BoxConfidenceIgnoresObjectness(objectness, maxClassProb) == maxClassProb
BoxConfidence(objectness, maxClassProb) == Times(objectness, maxClassProb)

\* `finalConfig.classNames[maxClassIdx] ?? `class_${maxClassIdx}``
FallbackNames == <<"class_0", "class_1", "class_2">>
ClassName(classNames, maxClassIdx) ==
    IF maxClassIdx >= 0 /\ maxClassIdx < Len(classNames) THEN classNames[maxClassIdx + 1]
    ELSE IF maxClassIdx = -1 THEN "class_-1"
    ELSE FallbackNames[maxClassIdx + 1]

\* the class loop of YOLODecoder.decode, classes c..numClasses-1
RECURSIVE ScanClasses(_, _, _, _, _, _)
ScanClasses(array, offset, numClasses, c, maxClassProb, maxClassIdx) ==
    IF c >= numClasses THEN [maxClassProb |-> maxClassProb, maxClassIdx |-> maxClassIdx]
    ELSE LET prob == At(array, offset + 5 + c)
         IN  IF Greater(prob, maxClassProb)
             THEN ScanClasses(array, offset, numClasses, c + 1, prob, c)
             ELSE ScanClasses(array, offset, numClasses, c + 1, maxClassProb, maxClassIdx)

\* the box loop of YOLODecoder.decode, boxes i.. while i < length / (5 + numClasses)
RECURSIVE DecodeBoxes(_, _, _, _, _)
DecodeBoxes(array, numClasses, classNames, minConfidence, i) ==
    IF i * (5 + numClasses) >= Len(array) THEN <<>>
    ELSE LET offset == i * (5 + numClasses)
             objectness == At(array, offset + 4)
             rest == DecodeBoxes(array, numClasses, classNames, minConfidence, i + 1)
             best == ScanClasses(array, offset, numClasses, 0, NegInfinity, -1)
             confidence == BoxConfidence(objectness, best.maxClassProb)
         IN  IF Less(objectness, minConfidence) THEN rest
             ELSE IF AtLeast(confidence, minConfidence)
             THEN <<[value |-> [x |-> At(array, offset), y |-> At(array, offset + 1),
                                width |-> At(array, offset + 2),
                                height |-> At(array, offset + 3),
                                class |-> ClassName(classNames, best.maxClassIdx),
                                confidence |-> confidence],
                     confidence |-> confidence,
                     position |-> i]>> \o rest
             ELSE rest

\* YOLODecoder.decode: no statement of it throws
yoloDecode(array, numClasses, classNames, minConfidence) ==
    [ok |-> TRUE, error |-> NoError,
     results |-> DecodeBoxes(array, numClasses, classNames, minConfidence, 0)]

\* buffers: whole records, the last one possibly cut short
BoxScores == {-1, 1, 2}
BoxThresholds == {1, 2}
ClassCounts == {1, 2}
ClassNameLists(numClasses) ==
    {[k \in 1..n |-> IF k = 1 THEN "cat" ELSE "dog"] : n \in {numClasses - 1, numClasses}}
BoxRecord(i, objectness, probs) == <<100 + i, 200 + i, 300 + i, 400 + i, objectness>> \o probs
RECURSIVE Flatten(_, _)
Flatten(recs, i) ==
    IF i >= Len(recs) THEN <<>>
    ELSE BoxRecord(i, recs[i + 1][1], recs[i + 1][2]) \o Flatten(recs, i + 1)
Cuts(numClasses) == {0, 1, 4 + numClasses}
BoxArrays(numClasses) ==
    {SubSeq(Flatten(recs, 0), 1, Len(Flatten(recs, 0)) - (IF Len(recs) = 0 THEN 0 ELSE cut)) :
        recs \in UNION {[1..n -> BoxScores \X [1..numClasses -> BoxScores]] : n \in 0..MaxBoxes},
        cut \in Cuts(numClasses)}

\* a caller holds a buffer and a box decoder configuration
BoxInit ==
    /\ ServiceInit
    /\ fn = "yoloDecode"
    /\ returned = FALSE
    /\ ret = <<>>
    /\ \E numClasses \in ClassCounts, minConfidence \in BoxThresholds :
          \E array \in BoxArrays(numClasses), classNames \in ClassNameLists(numClasses) :
             args = [array |-> array, numClasses |-> numClasses, classNames |-> classNames,
                     minConfidence |-> minConfidence]

\* YOLODecoder.decode is applied to the buffer
YoloDecode ==
    /\ fn = "yoloDecode"
    /\ ~returned
    /\ returned' = TRUE
    /\ ret' = yoloDecode(args.array, args.numClasses, args.classNames, args.minConfidence)
    /\ UNCHANGED <<fn, args, service>>

\* ------------------------------------------------ convenience transforms
MaxResults == 3     \* length of a decoded sequence handed to a transform

\* Floating point, scaled down: a number is a whole count of the smallest unit
\* and keeps Precision significant bits (53 in the arithmetic of the program);
\* an element read from a Float32Array has NarrowPrecision of them (24).
Precision == 4
NarrowPrecision == 2

RECURSIVE BitLen(_)
BitLen(n) == IF n = 0 THEN 0 ELSE 1 + BitLen(n \div 2)

\* a / b rounded to a whole number, a tie going to the even neighbour
RoundHalfEven(a, b) ==
    LET f == a \div b
        r == a % b
    IN  IF 2 * r < b THEN f
        ELSE IF 2 * r > b THEN f + 1
        ELSE IF f % 2 = 0 THEN f ELSE f + 1

\* a / b rounded to the nearest number of Precision significant bits
FRound(a, b) ==
    LET excess == BitLen(a \div b) - Precision
        quantum == IF excess > 0 THEN 2 ^ excess ELSE 1
    IN  quantum * RoundHalfEven(a, b * quantum)

\* `acc + r.confidence`
FAdd(x, y) == FRound(x + y, 1)

\* `sum / results.length`
QuotientIsSum(sum, n) == sum
Quotient(sum, n) == FRound(sum, n)

\* results.reduce((acc, r) => acc + r.confidence, 0)
RECURSIVE ReduceConfidence(_, _)
ReduceConfidence(results, acc) ==
    IF results = <<>> THEN acc
    ELSE ReduceConfidence(Tail(results), FAdd(acc, Head(results).confidence))

\* getAverageConfidence, of BaseDecoder and of the one-hot module alike
getAverageConfidence(results) ==
    IF Len(results) = 0 THEN 0
    ELSE Quotient(ReduceConfidence(results, 0), Len(results))

\* strings.join("")
RECURSIVE Join(_)
Join(strings) == IF strings = <<>> THEN "" ELSE Head(strings) \o Join(Tail(strings))

\* BaseDecoder.toString and decodeToString: results.map(r => r.value).join("")
toString(results) == Join([i \in 1..Len(results) |-> results[i].value])

\* decoded sequences: positions ascending, any symbols, any confidences
ResultValues == {"a", "b", "?"}
Confidences == {0, 8, 12, 14}
DecodedSequences ==
    UNION {[1..n -> [value : ResultValues, confidence : Confidences]] : n \in 0..MaxResults}

\* a caller holds a decoded sequence and is about to call one of the transforms
ResultsInit ==
    /\ ServiceInit
    /\ fn \in {"toString", "getAverageConfidence"}
    /\ returned = FALSE
    /\ ret = <<>>
    /\ \E results \in DecodedSequences :
          args = [i \in 1..Len(results) |->
                     [value |-> results[i].value, confidence |-> results[i].confidence,
                      position |-> i - 1]]

ToStringCall ==
    /\ fn = "toString"
    /\ ~returned
    /\ returned' = TRUE
    /\ ret' = toString(args)
    /\ UNCHANGED <<fn, args, service>>

AverageCall ==
    /\ fn = "getAverageConfidence"
    /\ ~returned
    /\ returned' = TRUE
    /\ ret' = getAverageConfidence(args)
    /\ UNCHANGED <<fn, args, service>>

\* --------------------------------------------------- index-to-symbol mappings
MaxCode == 38       \* largest index handed to a mapping
Codes == -2..MaxCode
Mappings == {"decodeChar", "lowercaseDecoder", "alphanumericDecoder"}

ApplyMapping(mapping, code) ==
    IF mapping = "decodeChar" THEN decodeChar(code) ELSE ApplyDecoder(mapping, code)

\* a caller is about to map an index to its symbol
MappingInit ==
    /\ ServiceInit
    /\ fn = "mapping"
    /\ returned = FALSE
    /\ ret = <<>>
    /\ \E mapping \in Mappings, code \in Codes : args = [mapping |-> mapping, code |-> code]

MapCode ==
    /\ fn = "mapping"
    /\ ~returned
    /\ returned' = TRUE
    /\ ret' = ApplyMapping(args.mapping, args.code)
    /\ UNCHANGED <<fn, args, service>>

DecoderInit == OnehotInit \/ BoxInit \/ ResultsInit \/ MappingInit

DecoderNext == Decode \/ YoloDecode \/ ToStringCall \/ AverageCall \/ MapCode

DecoderSpec == DecoderInit /\ [][DecoderNext]_vars

\* ----------------------------------------------------- claims on decoders
StrictlyIncreasing(results) ==
    \A k \in 1..(Len(results) - 1) : results[k].position < results[k + 1].position

\* what C12 says of the results a one-hot decoder returned for length len
WithinPositions(results, len, depth) ==
    /\ Len(results) <= len \div depth
    /\ \A k \in 1..Len(results) :
          results[k].position >= 0 /\ results[k].position < len \div depth
    /\ StrictlyIncreasing(results)

\* C12: for a buffer whose length L is a multiple of depth, a one-hot decoder
\* returns at most L/depth results, with 0 <= position < L/depth and positions
\* strictly increasing; the box decoder returns its results with positions
\* strictly increasing, each position the index of the record it was read from.
C12_PositionsInInputOrder ==
    /\ returned /\ fn = "decode" /\ Len(args.array) % args.depth = 0
          => /\ Len(args.array) > 0 => ret.huntbot.ok /\ ret.onehot.ok
             /\ WithinPositions(ret.huntbot.results, Len(args.array), args.depth)
             /\ WithinPositions(ret.onehot.results, Len(args.array), args.depth)
    /\ returned /\ fn = "yoloDecode"
          => /\ StrictlyIncreasing(ret.results)
             /\ \A k \in 1..Len(ret.results) :
                   LET i == ret.results[k].position
                   IN  /\ i >= 0
                       /\ i * (5 + args.numClasses) < Len(args.array)
                       /\ ret.results[k].value.x = At(args.array, i * (5 + args.numClasses))

\* two results come out in position order although the later one is the more confident
C12_Witness ==
    /\ returned
    /\ fn = "decode"
    /\ ret.huntbot.ok
    /\ Len(ret.huntbot.results) >= 2
    /\ ret.huntbot.results[1].position = 0
    /\ ret.huntbot.results[1].confidence < ret.huntbot.results[2].confidence

\* what C13 says of the outcome r of a one-hot decoder on a buffer of length len
RejectsBadLength(r, len, depth) ==
    /\ len = 0 => ~r.ok /\ r.error # NoError /\ r.results = <<>>
    /\ len > 0 /\ len % depth # 0
          => /\ ~r.ok
             /\ Contains(r.error, <<ToString(len)>>)
             /\ Contains(r.error, <<ToString(depth)>>)
             /\ r.results = <<>>
    /\ ~r.ok => len = 0 \/ len % depth # 0

\* C13: a one-hot decoder throws for an empty buffer, and for a buffer whose
\* length is not a multiple of depth it throws an error whose message holds the
\* length and the depth; in both cases it returns no result, and it throws in
\* no other case.
C13_OneHotRejectsBadLength ==
    returned /\ fn = "decode"
        => /\ RejectsBadLength(ret.huntbot, Len(args.array), args.depth)
           /\ RejectsBadLength(ret.onehot, Len(args.array), args.depth)

\* a buffer of length 4 with depth 3 is rejected
C13_Witness ==
    /\ returned
    /\ fn = "decode"
    /\ Len(args.array) = 4
    /\ args.depth = 3
    /\ ~ret.huntbot.ok
    /\ ~ret.onehot.ok
    /\ ret.huntbot.error = <<"Array length (", "4", ") must be divisible by depth (", "3", ")">>

\* C14: every decoder rejects a buffer that is not a whole number of records
\* (depth for the one-hot decoders, 5 + numClasses for the box decoder): decode
\* throws an error giving the expected and the actual length and returns no
\* result computed from a partial record.
C14_MalformedShapeRejected ==
    /\ returned /\ fn = "decode" /\ Len(args.array) % args.depth # 0
          => /\ ~ret.huntbot.ok /\ ret.huntbot.results = <<>>
             /\ ~ret.onehot.ok /\ ret.onehot.results = <<>>
             /\ Contains(ret.huntbot.error, <<ToString(Len(args.array))>>)
             /\ Contains(ret.huntbot.error, <<ToString(args.depth)>>)
    /\ returned /\ fn = "yoloDecode" /\ Len(args.array) % (5 + args.numClasses) # 0
          => /\ ~ret.ok
             /\ ret.results = <<>>

\* the box decoder returns a result read from a record cut short
C14_PartialRecordDecoded ==
    /\ returned
    /\ fn = "yoloDecode"
    /\ args.numClasses = 2
    /\ Len(args.array) = 6
    /\ ret.ok
    /\ Len(ret.results) = 1
    /\ ret.results[1].position = 0

\* the block of position p, its maximum and the smallest 0-based index reaching it
Block(array, p, depth) == SubSeq(array, p * depth + 1, (p + 1) * depth)
MaxOf(block) == CHOOSE m \in {block[k] : k \in 1..Len(block)} : \A k \in 1..Len(block) : block[k] <= m
FirstMaxIndex(block) ==
    (CHOOSE k \in 1..Len(block) : block[k] = MaxOf(block) /\ \A j \in 1..(k - 1) : block[j] < MaxOf(block)) - 1

\* the class probabilities of whole record i
ClassProbs(array, i, numClasses) ==
    SubSeq(array, i * (5 + numClasses) + 6, (i + 1) * (5 + numClasses))
WholeRecord(array, i, numClasses) == (i + 1) * (5 + numClasses) <= Len(array)

\* C15: the index a decoder selects is the smallest index whose value is the
\* maximum: of the block, for every result of a one-hot decoder, and of the class
\* probabilities, for every result the box decoder read from a whole record.
C15_FirstMaxWins ==
    /\ returned /\ fn = "decode" =>
          /\ \A k \in 1..Len(ret.huntbot.results) :
                LET r == ret.huntbot.results[k]
                IN  r.value = decodeChar(FirstMaxIndex(Block(args.array, r.position, args.depth)))
          /\ \A k \in 1..Len(ret.onehot.results) :
                LET r == ret.onehot.results[k]
                IN  r.char = ApplyDecoder(args.decoder,
                                          FirstMaxIndex(Block(args.array, r.position, args.depth)))
    /\ returned /\ fn = "yoloDecode" =>
          \A k \in 1..Len(ret.results) :
             LET r == ret.results[k]
             IN  WholeRecord(args.array, r.position, args.numClasses)
                    => r.value.class =
                          ClassName(args.classNames,
                                    FirstMaxIndex(ClassProbs(args.array, r.position, args.numClasses)))

\* the block [1, 1, 0] selects index 0
C15_Witness ==
    /\ returned
    /\ fn = "decode"
    /\ args.array = <<1, 1, 0>>
    /\ args.depth = 3
    /\ Len(ret.huntbot.results) = 1
    /\ ret.huntbot.results[1].value = "a"

\* the positions of a list of results
PositionsOf(results) == {results[k].position : k \in 1..Len(results)}

\* what C16 says of the positions and confidences a one-hot decoder returned
KeepsConfidentPositions(results, array, depth, minConfidence) ==
    /\ \A p \in 0..(Len(array) \div depth - 1) :
          p \in PositionsOf(results) <=> MaxOf(Block(array, p, depth)) >= minConfidence
    /\ \A k \in 1..Len(results) :
          results[k].confidence = MaxOf(Block(array, results[k].position, depth))
    /\ minConfidence = 0 /\ (\A j \in 1..Len(array) : array[j] >= 0)
          => /\ Len(results) = Len(array) \div depth
             /\ \A k \in 1..Len(results) : results[k].position = k - 1

\* C16: a one-hot decoder returns position p if and only if the maximum of block
\* p is at least minConfidence; the confidence of a result is that maximum and
\* its value the symbol of the first index reaching it. With minConfidence 0 and
\* no negative score the results are the positions 0..numPositions-1.
C16_ThresholdKeepsPositions ==
    returned /\ fn = "decode" /\ ret.huntbot.ok =>
        /\ ret.onehot.ok
        /\ KeepsConfidentPositions(ret.huntbot.results, args.array, args.depth, args.minConfidence)
        /\ KeepsConfidentPositions(ret.onehot.results, args.array, args.depth, args.minConfidence)
        /\ \A k \in 1..Len(ret.huntbot.results) :
              LET r == ret.huntbot.results[k]
                  first == FirstMaxIndex(Block(args.array, r.position, args.depth))
              IN  /\ r.value = decodeChar(first)
                  /\ ret.onehot.results[k].char = ApplyDecoder(args.decoder, first)

\* block 0 reaches the threshold and block 1 does not: one result, position 0
C16_Witness ==
    /\ returned
    /\ fn = "decode"
    /\ args.array = <<0, 1, 0, 0>>
    /\ args.depth = 2
    /\ args.minConfidence = 1
    /\ ret.huntbot.results = <<[value |-> "b", confidence |-> 1, position |-> 0]>>

\* s can be obtained from t by deleting elements
RECURSIVE IsSubsequence(_, _)
IsSubsequence(s, t) ==
    IF s = <<>> THEN TRUE
    ELSE IF t = <<>> THEN FALSE
    ELSE IF Head(s) = Head(t) THEN IsSubsequence(Tail(s), Tail(t))
    ELSE IsSubsequence(s, Tail(t))

\* thresholds at least t, among those tried
HigherThresholds(t) == {u \in -1..2 : u >= t}

\* C17: for the same buffer and depth, the results decoded with a threshold t2
\* are a sub-sequence of the results decoded with any threshold t1 <= t2, so
\* that raising the threshold never adds a result.
C17_ThresholdMonotonic ==
    returned /\ fn = "decode" /\ ret.huntbot.ok =>
        \A t2 \in HigherThresholds(args.minConfidence) :
            LET higher == decode(args.array, args.depth, t2)
                higherOnehot == onehotDecode(args.array, args.depth, args.decoder, t2)
            IN  /\ higher.ok /\ higherOnehot.ok
                /\ IsSubsequence(higher.results, ret.huntbot.results)
                /\ IsSubsequence(higherOnehot.results, ret.onehot.results)
                /\ Len(higher.results) <= Len(ret.huntbot.results)

\* threshold 0 keeps two positions of a buffer, threshold 1 only the second
C17_Witness ==
    /\ returned
    /\ fn = "decode"
    /\ args.minConfidence = 0
    /\ Len(ret.huntbot.results) = 2
    /\ decode(args.array, args.depth, 1).results = <<ret.huntbot.results[2]>>

\* the result the box decoder returned for box index i
ResultAt(results, i) == results[CHOOSE k \in 1..Len(results) : results[k].position = i]

\* what C18 says of whole record i, but for the class of the result
EmitsConfidentRecord(i) ==
    LET offset == i * (5 + args.numClasses)
        objectness == args.array[offset + 5]
        maxClassProb == MaxOf(ClassProbs(args.array, i, args.numClasses))
        r == ResultAt(ret.results, i)
    IN  /\ i \in PositionsOf(ret.results)
              <=> objectness >= args.minConfidence
                  /\ objectness * maxClassProb >= args.minConfidence
        /\ i \in PositionsOf(ret.results)
              => /\ r.confidence = objectness * maxClassProb
                 /\ r.value.confidence = r.confidence
                 /\ r.value.x = args.array[offset + 1]
                 /\ r.value.y = args.array[offset + 2]
                 /\ r.value.width = args.array[offset + 3]
                 /\ r.value.height = args.array[offset + 4]

WholeRecords == {i \in 0..MaxBoxes : WholeRecord(args.array, i, args.numClasses)}

\* C18: the box decoder returns whole record i if and only if its objectness is
\* at least minConfidence and objectness times the largest class probability is
\* at least minConfidence; the result has that product as confidence, the name
\* classNames[k] of the first class k reaching the largest probability, and the
\* x, y, width, height of the record.
C18_BoxEmission ==
    returned /\ fn = "yoloDecode" =>
        \A i \in WholeRecords :
            /\ EmitsConfidentRecord(i)
            /\ i \in PositionsOf(ret.results)
                  => LET k == FirstMaxIndex(ClassProbs(args.array, i, args.numClasses))
                     IN  /\ k < Len(args.classNames)
                         /\ ResultAt(ret.results, i).value.class = args.classNames[k + 1]

\* C18, with the class the code gives when classNames has no entry k: the class
\* is classNames[k] when there is one and the text class_k otherwise.
C18_BoxEmissionWithFallbackName ==
    returned /\ fn = "yoloDecode" =>
        \A i \in WholeRecords :
            /\ EmitsConfidentRecord(i)
            /\ i \in PositionsOf(ret.results)
                  => LET k == FirstMaxIndex(ClassProbs(args.array, i, args.numClasses))
                     IN  ResultAt(ret.results, i).value.class =
                            (IF k < Len(args.classNames) THEN args.classNames[k + 1]
                             ELSE FallbackNames[k + 1])

\* a record of objectness 2 whose best class, of probability 1, has no name:
\* one result, of confidence 2 and class class_1
C18_Witness ==
    /\ returned
    /\ fn = "yoloDecode"
    /\ args.numClasses = 2
    /\ args.classNames = <<"cat">>
    /\ args.array = <<100, 200, 300, 400, 2, -1, 1>>
    /\ Len(ret.results) = 1
    /\ ret.results[1].confidence = 2
    /\ ret.results[1].value.class = "class_1"

\* ------------------------------------------------ preprocessor geometry alone
MaxSide == 4        \* width or height, in pixels, of a source image or of the target

Max(a, b) == IF a >= b THEN a ELSE b
Min(a, b) == IF a <= b THEN a ELSE b

\* `metadata.width > this.config.width || metadata.height > this.config.height`
NeedsExtract(imgWidth, imgHeight, width, height) == imgWidth > width \/ imgHeight > height

\* extractCenterRegion: the region handed to extract()
CropOriginUnclamped(img, target) == (img - target) \div 2 - 1
CropOrigin(img, target) == Max(0, (img - target) \div 2)
extractCenterRegion(imgWidth, imgHeight, width, height) ==
    LET targetWidth == Min(imgWidth, width)
        targetHeight == Min(imgHeight, height)
    IN  [left |-> CropOrigin(imgWidth, targetWidth), top |-> CropOrigin(imgHeight, targetHeight),
         width |-> targetWidth, height |-> targetHeight]

\* padImage: the margins handed to extend()
PadBeforeCeil(padding) == Max(0, (padding + 1) \div 2)
PadBefore(padding) == Max(0, padding \div 2)
padImage(paddingX, paddingY) ==
    [left |-> PadBefore(paddingX), top |-> PadBefore(paddingY),
     right |-> Max(0, paddingX - PadBefore(paddingX)),
     bottom |-> Max(0, paddingY - PadBefore(paddingY))]

\* the geometry steps of preprocess for a source of imgWidth x imgHeight. After
\* extract(), image.metadata() reports either the extracted region or still the
\* input header, depending on the library: fromHeader tells which.
preprocessGeometry(imgWidth, imgHeight, width, height, fromHeader) ==
    LET extracted == NeedsExtract(imgWidth, imgHeight, width, height)
        region == IF extracted THEN extractCenterRegion(imgWidth, imgHeight, width, height)
                  ELSE [left |-> 0, top |-> 0, width |-> imgWidth, height |-> imgHeight]
        currentWidth == IF fromHeader THEN imgWidth ELSE region.width
        currentHeight == IF fromHeader THEN imgHeight ELSE region.height
        paddingX == width - currentWidth
        paddingY == height - currentHeight
        padded == paddingX > 0 \/ paddingY > 0
        pad == IF padded THEN padImage(paddingX, paddingY)
               ELSE [left |-> 0, top |-> 0, right |-> 0, bottom |-> 0]
    IN  [extracted |-> extracted, region |-> region, padded |-> padded, pad |-> pad,
         width |-> region.width + pad.left + pad.right,
         height |-> region.height + pad.top + pad.bottom]

\* a caller holds an image of some size and a preprocessor of some target size
GeometryInit ==
    /\ ServiceInit
    /\ fn = "geometry"
    /\ returned = FALSE
    /\ ret = <<>>
    /\ \E imgWidth \in 1..MaxSide, imgHeight \in 1..MaxSide, width \in 1..MaxSide,
          height \in 1..MaxSide, fromHeader \in BOOLEAN :
          args = [imgWidth |-> imgWidth, imgHeight |-> imgHeight, width |-> width,
                  height |-> height, fromHeader |-> fromHeader]

\* preprocess crops and pads the image
Geometry ==
    /\ fn = "geometry"
    /\ ~returned
    /\ returned' = TRUE
    /\ ret' = preprocessGeometry(args.imgWidth, args.imgHeight, args.width, args.height,
                                 args.fromHeader)
    /\ UNCHANGED <<fn, args, service>>

\* C19: for every source and target size of at least 1 x 1 the geometry steps
\* give an image of exactly the target size: the crop is min(src, target) per
\* axis with origin floor((src - target) / 2) >= 0 where the source is larger
\* and 0 elsewhere, the left and top margins are floor(deficit / 2), the right and
\* bottom ones the rest of the deficit, and no margin is negative.
C19_CropPadGivesTargetSize ==
    returned /\ fn = "geometry" =>
        LET deficitX == args.width - ret.region.width
            deficitY == args.height - ret.region.height
        IN  /\ ret.width = args.width /\ ret.height = args.height
            /\ ret.region.width = Min(args.imgWidth, args.width)
            /\ ret.region.height = Min(args.imgHeight, args.height)
            /\ ret.region.left = Max(0, (args.imgWidth - args.width) \div 2)
            /\ ret.region.top = Max(0, (args.imgHeight - args.height) \div 2)
            /\ ret.region.left >= 0 /\ ret.region.top >= 0
            /\ ret.region.left + ret.region.width <= args.imgWidth
            /\ ret.region.top + ret.region.height <= args.imgHeight
            /\ deficitX >= 0 /\ deficitY >= 0
            /\ ret.pad.left = deficitX \div 2 /\ ret.pad.right = deficitX - ret.pad.left
            /\ ret.pad.top = deficitY \div 2 /\ ret.pad.bottom = deficitY - ret.pad.top
            /\ ret.pad.left >= 0 /\ ret.pad.right >= 0 /\ ret.pad.top >= 0 /\ ret.pad.bottom >= 0

\* a source wider and lower than the target: cropped on one axis, padded with an
\* odd deficit on the other, the extra pixel at the bottom
C19_Witness ==
    /\ returned
    /\ fn = "geometry"
    /\ args.imgWidth = 4 /\ args.width = 2
    /\ args.imgHeight = 1 /\ args.height = 4
    /\ ret.region = [left |-> 1, top |-> 0, width |-> 2, height |-> 1]
    /\ ret.pad = [left |-> 0, top |-> 1, right |-> 0, bottom |-> 2]

\* ------------------------------------------------------------ binarization
MaxPixels == 3      \* pixels of a geometry-normalized image

Opaque == 255                       \* `?? 255`, and the alpha of a pixel of an image without alpha
GreyLevels == {0, 255}
AlphaLevels == {10, 254, 255}
AlphaThresholds == {254, 255}       \* config.threshold; DEFAULTS has 254
ConfigChannels == {1, 3, 4}         \* PreprocessConfig.channels
ColourBands == {1, 3}               \* colour bands of the raw output: grey, or red green blue

\* images of n pixels; without an alpha band every pixel is opaque
Images(n, alphaBand) ==
    [1..n -> [grey : GreyLevels, alpha : IF alphaBand THEN AlphaLevels ELSE {Opaque}]]

\* image.threshold(t): a band value of at least t becomes 255, any other 0
Thresholded(v, t) == IF v >= t THEN 255 ELSE 0

\* .raw().toBuffer(): the bands of each pixel one after the other, colour first,
\* the alpha band, if the image has one, last
RawBuffer(pixels, colourBands, alphaBand, t) ==
    LET channels == colourBands + (IF alphaBand THEN 1 ELSE 0)
    IN  [k \in 1..(Len(pixels) * channels) |->
            LET px == pixels[((k - 1) \div channels) + 1]
                band == (k - 1) % channels
            IN  IF band < colourBands THEN Thresholded(px.grey, t)
                ELSE Thresholded(px.alpha, t)]

\* `buffer[i + 3] ?? 255` with i counted from 0
AlphaValue(buffer, i) == IF i + 3 < Len(buffer) THEN buffer[i + 3 + 1] ELSE Opaque

\* normalize: the Float32Array, 1.0 and 0.0 written 1 and 0, index 0 first
normalize(buffer, width, height, channels, configChannels, t) ==
    LET targetSize == width * height * configChannels
    IN  [k \in 1..targetSize |->
            IF (k - 1) * channels < Len(buffer) /\ AlphaValue(buffer, (k - 1) * channels) < t
            THEN 1 ELSE 0]

\* threshold, raw output and normalize of preprocess for an image whose geometry
\* is done. The pipeline has an alpha band when ensureAlpha() is still part of it
\* (nothing was extracted) or when the image brought one.
Binarize(pixels, colourBands, alphaBand, configChannels, t) ==
    LET channels == colourBands + (IF alphaBand THEN 1 ELSE 0)
    IN  normalize(RawBuffer(pixels, colourBands, alphaBand, t), Len(pixels), 1, channels,
                  configChannels, t)

\* a caller holds a geometry-normalized image of one row. extractCenterRegion
\* starts a new pipeline from the image bytes, without ensureAlpha().
NormalizeInit ==
    /\ ServiceInit
    /\ fn = "normalize"
    /\ returned = FALSE
    /\ ret = <<>>
    /\ \E n \in 1..MaxPixels, extracted \in BOOLEAN, alphaBand \in BOOLEAN,
          colourBands \in ColourBands, configChannels \in ConfigChannels,
          t \in AlphaThresholds :
          /\ ~extracted => alphaBand
          /\ \E pixels \in Images(n, alphaBand) :
                args = [pixels |-> pixels, extracted |-> extracted, alphaBand |-> alphaBand,
                        colourBands |-> colourBands, configChannels |-> configChannels,
                        threshold |-> t]

\* preprocess thresholds the image and normalizes its raw pixels
Normalize ==
    /\ fn = "normalize"
    /\ ~returned
    /\ returned' = TRUE
    /\ ret' = Binarize(args.pixels, args.colourBands, args.alphaBand, args.configChannels,
                       args.threshold)
    /\ UNCHANGED <<fn, args, service>>

\* ------------------------------------------- preprocess results and tensors
MaxDim == 2         \* width or height of the image resized for the detector

\* `channels: this.config.channels` of the result of ImagePreprocessor.preprocess
ResultChannelsFromInfo(infoChannels, configChannels) == infoChannels
ResultChannels(infoChannels, configChannels) == configChannels

\* ImagePreprocessor.preprocess from the threshold on, for an image of one row
imagePreprocess(pixels, colourBands, alphaBand, configChannels, t) ==
    LET channels == colourBands + (IF alphaBand THEN 1 ELSE 0)
    IN  [data |-> Binarize(pixels, colourBands, alphaBand, configChannels, t),
         width |-> Len(pixels), height |-> 1,
         channels |-> ResultChannels(channels, configChannels)]

\* new Tensor("float32", data, dims): the data with its shape, row-major
Tensor(data, dims) == [data |-> data, dims |-> dims]

\* the element of a rank-4 tensor at (a, b, c, d), indices counted from 0
Element(tensor, a, b, c, d) ==
    tensor.data[((a * tensor.dims[2] + b) * tensor.dims[3] + c) * tensor.dims[4] + d + 1]

\* HuntbotModelService.predict: the input tensor built from the preprocessed image
huntbotTensor(preprocessed) ==
    Tensor(preprocessed.data,
           <<1, preprocessed.height, preprocessed.width, preprocessed.channels>>)

\* a HuntbotModelService about to preprocess an image whose geometry is done
CaptchaInit ==
    /\ ServiceInit
    /\ fn = "captcha"
    /\ returned = FALSE
    /\ ret = <<>>
    /\ \E n \in 1..MaxPixels, alphaBand \in BOOLEAN, colourBands \in ColourBands,
          configChannels \in ConfigChannels :
          \E pixels \in Images(n, alphaBand) :
              args = [pixels |-> pixels, alphaBand |-> alphaBand, colourBands |-> colourBands,
                      configChannels |-> configChannels, threshold |-> 254]

\* predict preprocesses the image and builds the input tensor
CaptchaInput ==
    /\ fn = "captcha"
    /\ ~returned
    /\ returned' = TRUE
    /\ LET preprocessed == imagePreprocess(args.pixels, args.colourBands, args.alphaBand,
                                           args.configChannels, args.threshold)
       IN  ret' = [preprocessed |-> preprocessed, inputTensor |-> huntbotTensor(preprocessed)]
    /\ UNCHANGED <<fn, args, service>>

\* fixed point: a real number x is held as floor(x * Unit)
Unit == 1000
meanValues == <<485, 456, 406>>        \* [0.485, 0.456, 0.406]
stdValues == <<229, 224, 225>>         \* [0.229, 0.224, 0.225]

\* one element of YOLOPreprocessor.normalize: byte b at channel index channelIdx
NormalizedValue(b, channelIdx, normalizeFlag) ==
    LET pixelValue == (b * Unit) \div 255
    IN  IF normalizeFlag
        THEN ((pixelValue - meanValues[channelIdx + 1]) * Unit) \div stdValues[channelIdx + 1]
        ELSE pixelValue

\* YOLOPreprocessor.normalize
yoloNormalize(buffer, channels, normalizeFlag) ==
    [i \in 1..Len(buffer) |-> NormalizedValue(buffer[i], (i - 1) % channels, normalizeFlag)]

\* the samples (h, w, c) of an image of the given size
Samples(width, height, channels) ==
    (0..(height - 1)) \X (0..(width - 1)) \X (0..(channels - 1))

\* resized images in which at most one sample is not 0
SampleLevels == {128, 255}
ResizedImages(width, height, channels) ==
    {[s \in Samples(width, height, channels) |-> 0]} \cup
    {[s \in Samples(width, height, channels) |-> IF s = m THEN b ELSE 0] :
        m \in Samples(width, height, channels), b \in SampleLevels}

\* .raw().toBuffer(): rows top to bottom, pixels left to right, the channels of
\* a pixel next to each other
InterleavedBuffer(image, width, height, channels) ==
    [k \in 1..(width * height * channels) |->
        image[<<(k - 1) \div (width * channels), ((k - 1) \div channels) % width,
                (k - 1) % channels>>]]

\* YOLOPreprocessor.preprocess for an image that resize() has brought to
\* width x height and whose raw output has infoChannels channels
yoloPreprocess(image, width, height, infoChannels, normalizeFlag) ==
    [data |-> yoloNormalize(InterleavedBuffer(image, width, height, infoChannels),
                            infoChannels, normalizeFlag),
     width |-> width, height |-> height, channels |-> infoChannels]

\* YOLOModelService.predict: the input tensor built from the preprocessed image
yoloTensor(preprocessed) ==
    Tensor(preprocessed.data,
           <<1, preprocessed.channels, preprocessed.height, preprocessed.width>>)

\* a YOLOModelService about to preprocess an image; removeAlpha() leaves one
\* channel for a grey image and three for a colour one
DetectorInit ==
    /\ ServiceInit
    /\ fn = "detector"
    /\ returned = FALSE
    /\ ret = <<>>
    /\ \E width \in 1..MaxDim, height \in 1..MaxDim, infoChannels \in ColourBands,
          configChannels \in ConfigChannels, normalizeFlag \in BOOLEAN :
          \E image \in ResizedImages(width, height, infoChannels) :
              args = [image |-> image, width |-> width, height |-> height,
                      infoChannels |-> infoChannels, configChannels |-> configChannels,
                      normalize |-> normalizeFlag]

\* predict preprocesses the image and builds the input tensor
DetectorInput ==
    /\ fn = "detector"
    /\ ~returned
    /\ returned' = TRUE
    /\ LET preprocessed == yoloPreprocess(args.image, args.width, args.height,
                                          args.infoChannels, args.normalize)
       IN  ret' = [preprocessed |-> preprocessed, inputTensor |-> yoloTensor(preprocessed)]
    /\ UNCHANGED <<fn, args, service>>

PreprocessorInit == GeometryInit \/ NormalizeInit \/ CaptchaInit \/ DetectorInit

PreprocessorNext == Geometry \/ Normalize \/ CaptchaInput \/ DetectorInput

PreprocessorSpec == PreprocessorInit /\ [][PreprocessorNext]_vars

\* C20: the output value at the index of every pixel of the geometry-normalized
\* image is 1.0 if the alpha of that pixel is strictly below the threshold and
\* 0.0 otherwise, and every element of the output buffer is 0.0 or 1.0.
C20_BinarizedByAlpha ==
    returned /\ fn = "normalize" =>
        /\ \A p \in 1..Len(args.pixels) :
              ret[p] = IF args.pixels[p].alpha < args.threshold THEN 1 ELSE 0
        /\ \A k \in DOMAIN ret : ret[k] \in {0, 1}

\* an opaque image that went through extractCenterRegion: its raw output has
\* three colour bands and no alpha band, and the first pixel is reported as ink
\* because the red band of the second pixel is read as its alpha
C20_ColourReadAsAlpha ==
    /\ returned
    /\ fn = "normalize"
    /\ args.extracted /\ ~args.alphaBand /\ args.colourBands = 3
    /\ Len(args.pixels) = 2
    /\ args.pixels[2].grey = 0
    /\ args.pixels[1].alpha = Opaque
    /\ ret[1] = 1

\* with four bands per pixel the fourth one is the alpha of the pixel itself
C20_FourBandsRight ==
    /\ returned
    /\ fn = "normalize"
    /\ args.alphaBand /\ args.colourBands = 3
    /\ args.threshold = 254
    /\ Len(args.pixels) = 2
    /\ args.pixels[1].alpha = 10 /\ ret[1] = 1
    /\ args.pixels[2].alpha = 255 /\ ret[2] = 0

\* C21: every result of either preprocessor has data.length = width * height *
\* channels, whatever the configured number of channels and the image.
C21_DataLengthMatchesShape ==
    returned /\ fn \in {"captcha", "detector"} =>
        Len(ret.preprocessed.data) =
            ret.preprocessed.width * ret.preprocessed.height * ret.preprocessed.channels

\* a binarizing result of 3 configured channels over a raw output of 2 channels
C21_Witness ==
    /\ returned
    /\ fn = "captcha"
    /\ args.configChannels = 3 /\ args.alphaBand /\ args.colourBands = 1
    /\ Len(args.pixels) = 2
    /\ ret.preprocessed.channels = 3
    /\ Len(ret.preprocessed.data) = 6

\* a normalizing result configured for 4 channels over a raw output of 3: the
\* result reports the 3 channels of its data
C21_DetectorResult ==
    /\ returned
    /\ fn = "detector"
    /\ args.configChannels = 4 /\ args.infoChannels = 3
    /\ args.width = 2 /\ args.height = 2
    /\ ret.preprocessed.channels = 3
    /\ Len(ret.preprocessed.data) = 12

\* the values of the first n results, one after the other
RECURSIVE ValuesInOrder(_, _)
ValuesInOrder(results, n) ==
    IF n = 0 THEN "" ELSE ValuesInOrder(results, n - 1) \o results[n].value

\* every result of the sequence has confidence c
AllConfidence(results, c) == \A i \in 1..Len(results) : results[i].confidence = c

\* c has at most NarrowPrecision significant bits
RECURSIVE OddPart(_)
OddPart(n) == IF n = 0 \/ n % 2 = 1 THEN n ELSE OddPart(n \div 2)
IsNarrow(c) == BitLen(OddPart(c)) <= NarrowPrecision

C22_RoundedAverage ==
    /\ returned
    /\ fn = "getAverageConfidence"
    /\ Len(args) = 3
    /\ AllConfidence(args, 14)
    /\ ret = 13

\* the values "b", "?", "a" give "b?a"
C22_StringInOrder ==
    /\ returned
    /\ fn = "toString"
    /\ Len(args) = 3
    /\ args[1].value = "b" /\ args[2].value = "?" /\ args[3].value = "a"
    /\ ret = "b?a"

Digits == <<"0", "1", "2", "3", "4", "5", "6", "7", "8", "9">>

\* the indices a mapping has symbols for
ValidCodes(mapping) == IF mapping = "alphanumericDecoder" THEN 0..36 ELSE 0..25

\* C26: both lowercase mappings send 0..25 to the letters a..z and every other
\* index, 26 included, to "?"; the alphanumeric mapping sends 0 to the space,
\* 1..10 to the digits 0..9, 11..36 to a..z and every other index to "?"; no two
\* valid indices of a mapping share a symbol and none of them gives "?".
C26_MappingsTotalInjective ==
    returned /\ fn = "mapping" =>
        /\ args.mapping \in {"decodeChar", "lowercaseDecoder"} =>
              ret = IF args.code \in 0..25 THEN Alphabet[args.code + 1] ELSE "?"
        /\ args.mapping = "alphanumericDecoder" =>
              ret = IF args.code = 0 THEN " "
                    ELSE IF args.code \in 1..10 THEN Digits[args.code]
                    ELSE IF args.code \in 11..36 THEN Alphabet[args.code - 10]
                    ELSE "?"
        /\ args.code \in ValidCodes(args.mapping) =>
              /\ ret # "?"
              /\ \A other \in ValidCodes(args.mapping) :
                    ApplyMapping(args.mapping, other) = ret => other = args.code

\* index 26, the last of a block of depth 27, has no letter
C26_Witness ==
    /\ returned
    /\ fn = "mapping"
    /\ args.mapping = "decodeChar"
    /\ args.code = 26
    /\ ret = "?"

\* C29: the detector tensor has shape [1, C, H, W] and its element (0, c, h, w)
\* is the scaled or normalized value of channel c of pixel (h, w) of the
\* resized image; the captcha tensor has shape [1, H, W, C] and its element
\* (0, h, w, c) is the value the preprocessor computed for pixel (h, w).
C29_TensorLayout ==
    returned =>
        /\ fn = "detector" =>
              /\ ret.inputTensor.dims = <<1, args.infoChannels, args.height, args.width>>
              /\ \A s \in Samples(args.width, args.height, args.infoChannels) :
                    Element(ret.inputTensor, 0, s[3], s[1], s[2]) =
                        NormalizedValue(args.image[s], s[3], args.normalize)
        /\ fn = "captcha" =>
              /\ ret.inputTensor.dims = <<1, 1, Len(args.pixels), args.configChannels>>
              /\ \A w \in 0..(Len(args.pixels) - 1), c \in 0..(args.configChannels - 1) :
                    Element(ret.inputTensor, 0, 0, w, c) = ret.preprocessed.data[w + 1]

\* a resized image of two pixels whose only lit sample is the green of the
\* first: the tensor shows it as the red of the second pixel
C29_GreenReadAsRed ==
    /\ returned
    /\ fn = "detector"
    /\ args.width = 2 /\ args.height = 1 /\ args.infoChannels = 3
    /\ ~args.normalize
    /\ args.image[<<0, 0, 1>>] = 255
    /\ args.image[<<0, 1, 0>>] = 0
    /\ ret.inputTensor.dims = <<1, 3, 1, 2>>
    /\ Element(ret.inputTensor, 0, 0, 0, 1) = NormalizedValue(255, 1, FALSE)

\* with one channel the two layouts are the same
C29_OneChannelRight ==
    /\ returned
    /\ fn = "captcha"
    /\ args.configChannels = 1
    /\ Len(args.pixels) = 3
    /\ ret.inputTensor.dims = <<1, 1, 3, 1>>
    /\ \A w \in 0..2 : Element(ret.inputTensor, 0, 0, w, 0) = ret.preprocessed.data[w + 1]

\* a step of predict() call c after its session check
PredictLaterStep(c) ==
    /\ calls[c].op = "predict"
    /\ calls[c].pc \in {"pre", "run"}
    /\ calls'[c] # calls[c]

\* release() has been invoked on the session of i, which is not cleared yet
SessionReleased(i) == IF session[i] = 0 THEN FALSE ELSE released[session[i]] > 0

\* the call handed over in the next state is a predict() that ended with the
\* wrapped error and no result
EndsWithWrappedError ==
    /\ observed'.op = "predict"
    /\ observed'.outcome = "rejected"
    /\ ~observed'.hasResult
    /\ observed'.thrown # NoError
    /\ observed'.err = WrapError(observed'.thrown)

\* C25 as stated: a predict() past its session check that finds the session
\* null, or already released, at a later step ends with the wrapped error and
\* returns no result.
C25_DisposedSessionRejects ==
    [][\A c \in Calls :
          /\ PredictLaterStep(c) /\ session[calls[c].inst] = 0 => EndsWithWrappedError
          /\ PredictLaterStep(c) /\ SessionReleased(calls[c].inst) /\ observed'.op = "predict"
                => EndsWithWrappedError]_vars

\* C25 amended: a predict() past its session check that finds the session null
\* at a later step ends at that step with the wrapped error and returns no
\* result, and no predict() resolves on an instance without a session; a
\* session that is released but not cleared yet is used like a live one.
C25_NullSessionRejects ==
    /\ [][\A c \in Calls :
             PredictLaterStep(c) /\ session[calls[c].inst] = 0 => EndsWithWrappedError]_vars
    /\ [](observed.op = "predict" /\ observed.outcome = "resolved"
             => session[observed.inst] # 0)

\* a predict() that had passed its session check and called preprocess() found
\* the session cleared by a dispose() and was rejected with the wrapped TypeError
C25_Witness ==
    /\ observed.op = "predict"
    /\ observed.outcome = "rejected"
    /\ IsPrefix(<<"init", "pre">>, observed.stages)
    /\ observed.thrown = NullSessionMessage
    /\ observed.err = WrapError(NullSessionMessage)
    /\ observed.inst \in everDisposed
    /\ session[observed.inst] = 0

\* a predict() resolved with a result although release() had been invoked on
\* the session, which dispose() had not cleared yet
C25_ResultAfterRelease ==
    /\ observed.op = "predict"
    /\ observed.outcome = "resolved"
    /\ observed.hasResult
    /\ session[observed.inst] = observed.invoked
    /\ released[observed.invoked] = 1

\* call c is an initialize() that arrived while a load was in flight
JoinedInFlight(c) == calls[c].op = "initialize" /\ calls[c].joined = "inflight"

\* C23: an initialize() that arrives while a load is in flight awaits that
\* load of its instance; it settles only once the load has settled, resolved
\* if and only if the load succeeded and rejected if and only if it failed;
\* with no dispose() on the instance it does not resolve while there is no
\* session; and, the load settling, every such caller settles.
C23_JoinersSettleWithLoad ==
    /\ [](\A c \in Calls :
             JoinedInFlight(c) =>
                 /\ calls[c].awaiting \in LoadsOf(calls[c].inst)
                 /\ \A d \in Calls : JoinedInFlight(d) /\ calls[d].inst = calls[c].inst
                                       /\ loads[calls[d].awaiting].st = "inflight"
                                       /\ loads[calls[c].awaiting].st = "inflight"
                                       /\ calls[c].inst \notin everDisposed
                        => calls[d].awaiting = calls[c].awaiting)
    /\ [][\A c \in Calls :
             JoinedInFlight(c) /\ calls'[c] # calls[c] =>
                 /\ loads[calls[c].awaiting].st # "inflight"
                 /\ observed'.op = "initialize"
                 /\ observed'.outcome = "resolved" <=> loads[calls[c].awaiting].st = "ok"
                 /\ observed'.outcome = "rejected" <=> loads[calls[c].awaiting].st = "failed"
                 /\ observed'.outcome = "rejected" => observed'.err = loads[calls[c].awaiting].error]_vars
    /\ [](observed.op = "initialize" /\ observed.joined = "inflight"
          /\ observed.outcome = "resolved" /\ observed.inst \notin everDisposed
             => session[observed.inst] # 0)
    /\ \A c \in Calls : JoinedInFlight(c) ~> calls[c].op = "none"

\* two initialize() calls had joined the load in flight; it failed, one of them
\* has been rejected with the load error and the other is about to be
C23_Witness ==
    /\ observed.op = "initialize"
    /\ observed.joined = "inflight"
    /\ observed.outcome = "rejected"
    /\ observed.err = LoadErrorMessage
    /\ \E c \in Calls : /\ JoinedInFlight(c)
                        /\ calls[c].inst = observed.inst
                        /\ loads[calls[c].awaiting].st = "failed"

\* an initialize() that had joined a load in flight resolved on its session
C23_ResolvedWithLoad ==
    /\ observed.op = "initialize"
    /\ observed.joined = "inflight"
    /\ observed.outcome = "resolved"
    /\ observed.inst \notin everDisposed
    /\ session[observed.inst] # 0

\* a step of predict() call c that met a session: its call or a later step
WarmPredictStep(c) ==
    /\ calls'[c] # calls[c]
    /\ \/ calls[c].op = "none" /\ calls'[c].op = "predict" /\ calls'[c].joined = "ready"
       \/ calls[c].op = "predict" /\ calls[c].joined = "ready"

\* the predict() calls in flight on instance i that met a session
WarmInFlight(i) == {c \in RunningOn(i) : calls[c].op = "predict" /\ calls[c].joined = "ready"}

\* C24: after warm-up a predict() waits for no other predict(): calls on one
\* instance are in flight together; no step of them writes the session, the
\* memo or the singleton reference; and the result of each is the decoded
\* output of the model for the image of that very call.
C24_WarmPredictsIndependent ==
    /\ [][\A c \in Calls :
             WarmPredictStep(c) => UNCHANGED <<instance, session, initPromise>>]_vars
    /\ [][\A c, d \in Calls :
             WarmPredictStep(c) /\ d # c /\ calls[d].op = "predict"
                 => calls'[d] = calls[d]]_vars
    /\ [](observed.op = "predict" /\ observed.outcome = "resolved" =>
             \E n \in 0..MaxRawLen :
                 LET cfg == config[observed.inst]
                     d == decode(Infer(n, observed.input), cfg.depth, cfg.minConfidence)
                 IN  d.ok /\ observed.results = d.results)

\* two predict() calls on the warmed-up instance were at their run stage
\* together, with different images; the one issued first, for image 2, has
\* resolved with the symbol of image 2 while the other is still in flight
C24_Witness ==
    /\ observed.op = "predict"
    /\ observed.outcome = "resolved"
    /\ observed.joined = "ready"
    /\ observed.input = 2
    /\ Len(observed.results) = 1
    /\ observed.results[1].value = "a"
    /\ \E c \in WarmInFlight(observed.inst) :
          /\ calls[c].pc = "run"
          /\ calls[c].input = 1
          /\ calls[c].invoked = observed.invoked

\* C27: under any interleaving of dispose() calls on one instance, release() is
\* invoked at most once on each inference session.
C27_ReleasedAtMostOnce == \A s \in LoadIds : released[s] <= 1

\* a second dispose() arrived while the first was still awaiting release(): the
\* session field was not cleared yet and release() was invoked again
C27_ReleasedTwice ==
    \E s \in LoadIds, c, d \in Calls :
        /\ released[s] = 2
        /\ c # d
        /\ calls[c].op = "dispose" /\ calls[c].pc = "releasing"
        /\ calls[d].op = "dispose" /\ calls[d].pc = "releasing"
        /\ calls[c].inst = calls[d].inst
        /\ session[calls[c].inst] = s

\* C28: the singleton reference is cleared only by a dispose() on the instance
\* it points to, or by reset(): a dispose() on an instance that is no longer
\* registered leaves the reference on the newer instance.
C28_ClearedByOwnerOnly ==
    [][instance # 0 /\ instance' = 0 =>
          \E c \in Calls : /\ calls[c].op = "dispose"
                           /\ calls[c].inst = instance
                           /\ calls'[c] = IdleCall]_vars

\* the first instance was disposed again after getInstance() had registered a
\* second one: the reference is empty although no dispose() was ever called on
\* the second instance
C28_NewerInstanceUnregistered ==
    /\ observed.op = "dispose"
    /\ observed.outcome = "resolved"
    /\ observed.inst = 1
    /\ nInst = 2
    /\ 2 \notin everDisposed
    /\ instance = 0

\* ---------------------------------------------------------- bounded download
MaxChunks == 3      \* chunks of a response body

MAX_FILE_SIZE == 10 * 1024 * 1024

\* lengths of a chunk the reader hands over
ChunkLengths == {1, MAX_FILE_SIZE - 1, MAX_FILE_SIZE, MAX_FILE_SIZE + 1}
Bodies == UNION {[1..n -> ChunkLengths] : n \in 0..MaxChunks}

\* the Content-Length header: absent, or a number that need not be the size of the body
ContentLengths ==
    {[present |-> FALSE, value |-> 0]} \cup
    {[present |-> TRUE, value |-> v] : v \in {1, MAX_FILE_SIZE, MAX_FILE_SIZE + 1}}

InvalidUrlMessage == <<"Invalid or untrusted URL. Only Discord CDN URLs are allowed.">>
DownloadFailedMessage == <<"Download failed: ", "404", " ", "Not Found">>
TooLargeMessage(contentLength) ==
    <<"File too large: ", ToString(contentLength), " bytes (max: ", ToString(MAX_FILE_SIZE), " bytes)">>
ContentTypeMessage == <<"Invalid content type: ", "text/html", ". Only images are allowed.">>
NoBodyMessage == <<"Unable to read response body">>
ExceedsMessage == <<"File exceeds maximum size of ", ToString(MAX_FILE_SIZE), " bytes">>
SignatureMessage == <<"File is not a valid image (invalid file signature)">>
ReadFailedMessage == <<"terminated">>

\* `totalSize > MAX_FILE_SIZE`
ExceedsTwiceTheLimit(totalSize) == totalSize > 2 * MAX_FILE_SIZE
ExceedsLimit(totalSize) == totalSize > MAX_FILE_SIZE

\* a chunk is written <<its number in the body, its length>>
RECURSIVE ByteLength(_)
ByteLength(chunks) == IF chunks = <<>> THEN 0 ELSE Head(chunks)[2] + ByteLength(Tail(chunks))

\* Buffer.concat(chunks): a buffer of the added lengths into which each chunk
\* is copied behind the one before it
Concat(chunks) ==
    [length |-> ByteLength(chunks),
     parts |-> [i \in 1..Len(chunks) |->
                   [chunk |-> chunks[i][1], offset |-> ByteLength(SubSeq(chunks, 1, i - 1)),
                    length |-> chunks[i][2]]]]

\* the frame of downloadAndValidateImage while it runs
Frame(pc) == [pc |-> pc, chunks |-> <<>>, totalSize |-> 0, reads |-> 0, cancelled |-> FALSE,
              outcome |-> "none", error |-> NoError, buffer |-> Concat(<<>>)]

\* the call throws
Throw(message) == [ret EXCEPT !.pc = "done", !.outcome = "rejected", !.error = message]

\* a caller is about to download from a server that will answer with some
\* Content-Length header and some body
DownloadInit ==
    /\ ServiceInit
    /\ fn = "download"
    /\ returned = FALSE
    /\ ret = Frame("start")
    /\ \E contentLength \in ContentLengths, body \in Bodies :
          args = [contentLength |-> contentLength, body |-> body]

\* from the call to `await fetch(...)`: the URL check
DownloadStart ==
    /\ fn = "download"
    /\ ~returned
    /\ ret.pc = "start"
    /\ \/ ret' = Throw(InvalidUrlMessage) /\ returned' = TRUE
       \/ ret' = [ret EXCEPT !.pc = "fetch"] /\ returned' = FALSE
    /\ UNCHANGED <<fn, args, service>>

\* fetch resolved: status, Content-Length, Content-Type and body reader checks
DownloadHeaders ==
    /\ fn = "download"
    /\ ~returned
    /\ ret.pc = "fetch"
    /\ \/ ret' = Throw(DownloadFailedMessage) /\ returned' = TRUE
       \/ IF args.contentLength.present /\ args.contentLength.value > MAX_FILE_SIZE
          THEN ret' = Throw(TooLargeMessage(args.contentLength.value)) /\ returned' = TRUE
          ELSE \/ ret' = Throw(ContentTypeMessage) /\ returned' = TRUE
               \/ ret' = Throw(NoBodyMessage) /\ returned' = TRUE
               \/ ret' = [ret EXCEPT !.pc = "read"] /\ returned' = FALSE
    /\ UNCHANGED <<fn, args, service>>

\* one turn of the read loop: `await reader.read()` settled
DownloadRead ==
    /\ fn = "download"
    /\ ~returned
    /\ ret.pc = "read"
    /\ \/ ret' = Throw(ReadFailedMessage) /\ returned' = TRUE
       \/ IF ret.reads >= Len(args.body)
          THEN ret' = [ret EXCEPT !.pc = "concat"] /\ returned' = FALSE
          ELSE LET value == <<ret.reads + 1, args.body[ret.reads + 1]>>
                   totalSize == ret.totalSize + value[2]
               IN  IF ExceedsLimit(totalSize)
                   THEN /\ ret' = [Throw(ExceedsMessage) EXCEPT !.totalSize = totalSize,
                                      !.reads = ret.reads + 1, !.cancelled = TRUE]
                        /\ returned' = TRUE
                   ELSE /\ ret' = [ret EXCEPT !.totalSize = totalSize, !.reads = ret.reads + 1,
                                              !.chunks = Append(@, value)]
                        /\ returned' = FALSE
    /\ UNCHANGED <<fn, args, service>>

\* the reader is done: the chunks are combined and the signature is verified
DownloadFinish ==
    /\ fn = "download"
    /\ ~returned
    /\ ret.pc = "concat"
    /\ \/ ret' = [Throw(SignatureMessage) EXCEPT !.buffer = Concat(ret.chunks)]
       \/ ret' = [ret EXCEPT !.pc = "done", !.outcome = "resolved", !.buffer = Concat(ret.chunks)]
    /\ returned' = TRUE
    /\ UNCHANGED <<fn, args, service>>

DownloadNext == DownloadStart \/ DownloadHeaders \/ DownloadRead \/ DownloadFinish

DownloadSpec == DownloadInit /\ [][DownloadNext]_vars

\* the chunks of the body up to number n, as the reader hands them over
BodyPrefix(n) == [i \in 1..n |-> <<i, args.body[i]>>]

\* C30: no buffer larger than MAX_FILE_SIZE is returned, whatever the chunks
\* and the Content-Length header: the chunks kept never exceed the limit, a
\* chunk that takes the size read over the limit is not kept, the reader is
\* cancelled at that very chunk and the call fails; a returned buffer is the
\* concatenation of all chunks of the body.
C30_DownloadBounded ==
    fn = "download" =>
        /\ ret.chunks = BodyPrefix(Len(ret.chunks))
        /\ ByteLength(ret.chunks) <= MAX_FILE_SIZE
        /\ ret.outcome = "resolved" =>
              /\ returned
              /\ ret.buffer.length <= MAX_FILE_SIZE
              /\ ret.buffer.length = ByteLength(BodyPrefix(Len(args.body)))
              /\ Len(ret.buffer.parts) = Len(args.body)
              /\ \A i \in 1..Len(args.body) :
                    ret.buffer.parts[i] = [chunk |-> i, length |-> args.body[i],
                                           offset |-> ByteLength(BodyPrefix(i - 1))]
              /\ ~ret.cancelled
        /\ ret.cancelled =>
              /\ ret.outcome = "rejected" /\ ret.error = ExceedsMessage
              /\ ByteLength(BodyPrefix(ret.reads)) > MAX_FILE_SIZE
              /\ ByteLength(BodyPrefix(ret.reads - 1)) <= MAX_FILE_SIZE
              /\ ret.chunks = BodyPrefix(ret.reads - 1)
        /\ ret.pc \in {"read", "concat"} =>
              /\ ret.chunks = BodyPrefix(ret.reads)
              /\ ret.totalSize = ByteLength(ret.chunks)
        /\ ByteLength(BodyPrefix(Len(args.body))) > MAX_FILE_SIZE => ret.outcome # "resolved"

\* a body of MAX_FILE_SIZE bytes and one byte more behind a Content-Length of 1:
\* the second chunk is refused, the reader cancelled and the call rejected
C30_Witness ==
    /\ fn = "download"
    /\ returned
    /\ args.contentLength = [present |-> TRUE, value |-> 1]
    /\ args.body = <<MAX_FILE_SIZE, 1>>
    /\ ret.cancelled
    /\ ret.outcome = "rejected"
    /\ ret.error = ExceedsMessage
    /\ Len(ret.chunks) = 1

\* a body of exactly MAX_FILE_SIZE bytes in two chunks is returned whole
C30_FullSizeReturned ==
    /\ fn = "download"
    /\ returned
    /\ ~args.contentLength.present
    /\ args.body = <<MAX_FILE_SIZE - 1, 1>>
    /\ ret.outcome = "resolved"
    /\ ret.buffer.length = MAX_FILE_SIZE
    /\ ret.buffer.parts[2] = [chunk |-> 2, offset |-> MAX_FILE_SIZE - 1, length |-> 1]

====
